---- MODULE Spec2Model ----
(***************************************************************************)
(* gopy: a Python-2-flavoured source language compiled to stack-machine    *)
(* bytecode (pkg/parser, pkg/compiler) and run by a frame-stack VM         *)
(* (pkg/vm) over the tagged runtime values of pkg/runtime.                 *)
(*                                                                         *)
(* A behaviour is one pipeline run, as tests/vm_test.go compileAndRun      *)
(* drives it: the source is tokenized, the token vector is parsed, the     *)
(* module is compiled, and the code object is run one instruction per      *)
(* step in a fresh VM.  The source is held as lines of lexemes with their  *)
(* indentation, so the lexer is modelled from the lexeme up.               *)
(*                                                                         *)
(* Representation.  A Python string value is a sequence of one-character   *)
(* strings, so that indexing, iteration and rendering are computed.        *)
(* Identifiers are atomic strings.  Lists and dicts live in `heap` and     *)
(* values refer to them by index, so that aliasing is visible.             *)
(***************************************************************************)
EXTENDS Integers, Sequences, FiniteSets, TLC

VARIABLES
    source,     \* the program text: lines of [indent, words]
    tokens,     \* parser.Parser.tokens: the token vector given to the parser
    pc,         \* position in the pipeline: "lex", "parse", "compile", "run", "loop"
    module,     \* *ast.Module returned by Parse (its Body)
    code,       \* *compiler.CodeObject returned by Compile, or NoCode
    frames,     \* VM.frames[0..frameIdx]; Len(frames) = frameIdx + 1
    globals,    \* VM.globals: name -> value
    builtins,   \* VM.builtins: name -> built-in function
    heap,       \* the list and dict objects allocated so far
    out,        \* the bytes written to stdout
    outcome,    \* "" while running, then how the pipeline ended: "parse_error",
                \* "compile_error", "value", "error" (Run returned an error), "panic"
    result,     \* the object Run returned
    err,        \* the error (or panic) message
    lexer,      \* *lexer.Lexer while a text is tokenised character by character
    firstRun,   \* what the first run of the code object gave, once it is run again
    bytecode    \* the bytecode file py2c writes and py2vm reads: a gob stream

vars ==
    <<source, tokens, pc, module, code, frames, globals, builtins, heap, out, outcome, result,
      err, lexer, firstRun, bytecode>>

(***************************************************************************)
(* Runtime values (pkg/runtime)                                            *)
(***************************************************************************)
PyInt(n) == [t |-> "int", v |-> n]
PyString(s) == [t |-> "str", v |-> s]
PyBool(b) == [t |-> "bool", v |-> b]
PyNone == [t |-> "NoneType"]
PyList(r) == [t |-> "list", ref |-> r]
PyDict(r) == [t |-> "dict", ref |-> r]
PyFunction(c, n) == [t |-> "function", code |-> c, name |-> n]
PyBuiltin(n) == [t |-> "builtin_function_or_method", name |-> n]

Abs(n) == IF n < 0 THEN -n ELSE n

\* runtime.PyFloat.  The float64 is held as the exact fraction n / d in
\* lowest terms with d > 0: the two agree on the values float64 represents
\* exactly, which are the ones the programs below compute.
PyFloat(n, d) ==
    LET RECURSIVE Gcd(_, _)
        Gcd(a, b) == IF b = 0 THEN a ELSE Gcd(b, a % b)
        g == Gcd(Abs(n), Abs(d))
        s == IF d < 0 THEN -1 ELSE 1
    IN  [t |-> "float", n |-> s * (n \div g), d |-> s * (d \div g)]

\* float64(i) of an integer, and a float as it is
FloatOf(v) == IF v.t = "int" THEN PyFloat(v.v, 1) ELSE v
\* Go's nil object.Object, which Frame.peek returns on an empty stack.
GoNil == [t |-> "nil"]

Digits == <<"0", "1", "2", "3", "4", "5", "6", "7", "8", "9">>

RECURSIVE ItoaNat(_)
ItoaNat(n) == IF n < 10 THEN <<Digits[n + 1]>>
              ELSE ItoaNat(n \div 10) \o <<Digits[(n % 10) + 1]>>

\* strconv.Itoa
Itoa(n) == IF n < 0 THEN <<"-">> \o ItoaNat(-n) ELSE ItoaNat(n)

\* PyFloat.String: fmt.Sprintf("%g", p.Value), for values printed without
\* an exponent
FloatString(v) ==
    LET RECURSIVE FractionDigits(_, _, _)
        \* the decimal digits of r / d < 1, at most k of them
        FractionDigits(r, d, k) ==
            IF r = 0 \/ k = 0 THEN <<>>
            ELSE <<Digits[((10 * r) \div d) + 1]>> \o FractionDigits((10 * r) % d, d, k - 1)
    IN
    (IF v.n < 0 THEN <<"-">> ELSE <<>>)
        \o ItoaNat(Abs(v.n) \div v.d)
        \o (IF Abs(v.n) % v.d = 0 THEN <<>>
            ELSE <<".">> \o FractionDigits(Abs(v.n) % v.d, v.d, 17))

RECURSIVE JoinStrings(_, _)
\* strings.Join
JoinStrings(parts, sep) ==
    IF parts = <<>> THEN <<>>
    ELSE IF Len(parts) = 1 THEN parts[1]
    ELSE parts[1] \o sep \o JoinStrings(Tail(parts), sep)

\* PyString.String: fmt.Sprintf("%s", p.Value).
PyStringString(s) == s

RECURSIVE String(_, _)
\* object.Object.String of every variant, over heap h.
String(v, h) ==
    CASE v.t = "int" -> Itoa(v.v)
      [] v.t = "float" -> FloatString(v)
      [] v.t = "str" -> PyStringString(v.v)
      [] v.t = "bool" -> IF v.v THEN <<"T", "r", "u", "e">> ELSE <<"F", "a", "l", "s", "e">>
      [] v.t = "NoneType" -> <<"N", "o", "n", "e">>
      [] v.t = "list" ->
            <<"[">> \o JoinStrings([i \in 1..Len(h[v.ref].elems) |-> String(h[v.ref].elems[i],
                    h)],
                                   <<",", " ">>) \o <<"]">>
      [] v.t = "dict" ->
            <<"{">> \o JoinStrings([i \in 1..Len(h[v.ref].keys) |->
                                       h[v.ref].keys[i] \o <<":", " ">>
                                           \o String(h[v.ref].pairs[h[v.ref].keys[i]], h)],
                                   <<",", " ">>) \o <<"}">>
      [] v.t = "function" -> <<"<", "function", " ", v.name, ">">>
      [] OTHER -> <<"<", "built-in", " ", "function", " ", v.name, ">">>

\* object.Object.Type
Type(v) == v.t

\* object.Object.IsTruthy
IsTruthy(v, h) ==
    CASE v.t = "int" -> v.v # 0
      [] v.t = "float" -> v.n # 0
      [] v.t = "str" -> Len(v.v) > 0
      [] v.t = "bool" -> v.v
      [] v.t = "NoneType" -> FALSE
      [] v.t = "list" -> Len(h[v.ref].elems) > 0
      [] v.t = "dict" -> Len(h[v.ref].keys) > 0
      [] OTHER -> TRUE

RECURSIVE Equal(_, _, _)
\* object.Object.Equal
Equal(a, b, h) ==
    CASE a.t # b.t -> FALSE
      [] a.t \in {"int", "str", "bool"} -> a.v = b.v
      [] a.t = "float" -> a.n = b.n /\ a.d = b.d
      [] a.t = "NoneType" -> TRUE
      [] a.t = "list" ->
            /\ Len(h[a.ref].elems) = Len(h[b.ref].elems)
            /\ \A i \in 1..Len(h[a.ref].elems) : Equal(h[a.ref].elems[i], h[b.ref].elems[i], h)
      [] a.t = "dict" ->
            /\ Len(h[a.ref].keys) = Len(h[b.ref].keys)
            /\ \A i \in 1..Len(h[a.ref].keys) :
                  LET key == h[a.ref].keys[i] IN
                  /\ key \in DOMAIN h[b.ref].pairs
                  /\ Equal(h[a.ref].pairs[key], h[b.ref].pairs[key], h)
      [] a.t = "function" -> a.code = b.code
      [] OTHER -> a.name = b.name

(***************************************************************************)
(* Tokens (pkg/lexer) and the recursive-descent parser (pkg/parser)        *)
(***************************************************************************)
\* lexer.Token: the lexeme of an INT or STRING token is its character
\* sequence, that of an identifier or operator an atomic string.
Token(type, lexeme, line) == [type |-> type, lexeme |-> lexeme, line |-> line]

NoErr == [msg |-> "", line |-> 0]
\* A parse error: fmt.Errorf("... at line %d", ..., Line).
ParseError(msg, line) == [msg |-> msg, line |-> line]

NilNode == [k |-> "nil"]
Ok(node, p) == [node |-> node, pos |-> p, err |-> NoErr]
Fail(msg, toks, p, tok) == [node |-> NilNode, pos |-> p, err |-> ParseError(msg, tok.line)]

\* Parser.currentToken; positions are 1-based here.
currentToken(toks, p) == IF p > Len(toks) THEN Token("EOF", "", 0) ELSE toks[p]

\* Parser.advance
advance(toks, p) == IF p <= Len(toks) THEN p + 1 ELSE p

RECURSIVE skipNewlines(_, _)
\* Parser.skipNewlines
skipNewlines(toks, p) ==
    IF currentToken(toks, p).type = "NEWLINE" THEN skipNewlines(toks, advance(toks, p)) ELSE p

\* Parser.expect: the position after the expected token, or a failure.
expect(toks, p, type) ==
    IF currentToken(toks, p).type # type
    THEN Fail("expected " \o type \o ", got " \o currentToken(toks, p).type, toks, p,
              currentToken(toks, p))
    ELSE Ok(NilNode, advance(toks, p))

RECURSIVE Atoi(_)
\* strconv.Atoi on a run of digits
Atoi(ds) ==
    IF ds = <<>> THEN 0
    ELSE 10 * Atoi(SubSeq(ds, 1, Len(ds) - 1))
         + (CHOOSE d \in 0..9 : Digits[d + 1] = ds[Len(ds)])

\* strconv.ParseFloat on digits with one decimal point, as [n, d]
ParseFloat(cs) ==
    LET dot == CHOOSE i \in 1..Len(cs) : cs[i] = "."
        frac == SubSeq(cs, dot + 1, Len(cs))
        RECURSIVE Pow10(_)
        Pow10(k) == IF k = 0 THEN 1 ELSE 10 * Pow10(k - 1)
    IN  [n |-> Atoi(SubSeq(cs, 1, dot - 1) \o frac), d |-> Pow10(Len(frac))]

\* ast.Num holds an int (field n) or a float64 (field f)
IsFloatNum(e) == "f" \in DOMAIN e

\* Parser.isCompOp
isCompOp(toks, p) ==
    currentToken(toks, p).type \in {"EQ", "NOT_EQ", "LT", "GT", "LTE", "GTE", "IN"}

\* Parser.getCompOp
getCompOp(toks, p) ==
    CASE currentToken(toks, p).type = "EQ" -> "=="
      [] currentToken(toks, p).type = "NOT_EQ" -> "!="
      [] currentToken(toks, p).type = "LT" -> "<"
      [] currentToken(toks, p).type = "GT" -> ">"
      [] currentToken(toks, p).type = "LTE" -> "<="
      [] currentToken(toks, p).type = "GTE" -> ">="
      [] currentToken(toks, p).type = "IN" -> "in"
      [] OTHER -> ""

RECURSIVE parse(_, _, _, _)

\* Parser.parseOrExpr
parseOrExpr(toks, p) ==
    LET left == parse("parseAndExpr", toks, <<>>, p) IN
    IF left.err # NoErr THEN left
    ELSE IF currentToken(toks, left.pos).type = "OR"
    THEN parse("parseOrLoop", toks, <<<<left.node>>>>, left.pos)
    ELSE left

\* the loop of parseOrExpr
parseOrLoop(toks, values, p) ==
    IF currentToken(toks, p).type = "OR"
    THEN LET right == parse("parseAndExpr", toks, <<>>, advance(toks, p)) IN
         IF right.err # NoErr THEN right
         ELSE parse("parseOrLoop", toks, <<Append(values, right.node)>>, right.pos)
    ELSE Ok([k |-> "BoolOp", op |-> "or", values |-> values], p)

parseExpr(toks, p) == parseOrExpr(toks, p)

parseAndExpr(toks, p) ==
    LET left == parse("parseNotExpr", toks, <<>>, p) IN
    IF left.err # NoErr THEN left
    ELSE IF currentToken(toks, left.pos).type = "AND"
    THEN parse("parseAndLoop", toks, <<<<left.node>>>>, left.pos)
    ELSE left

parseAndLoop(toks, values, p) ==
    IF currentToken(toks, p).type = "AND"
    THEN LET right == parse("parseNotExpr", toks, <<>>, advance(toks, p)) IN
         IF right.err # NoErr THEN right
         ELSE parse("parseAndLoop", toks, <<Append(values, right.node)>>, right.pos)
    ELSE Ok([k |-> "BoolOp", op |-> "and", values |-> values], p)

parseNotExpr(toks, p) ==
    IF currentToken(toks, p).type = "NOT"
    THEN LET e == parse("parseNotExpr", toks, <<>>, advance(toks, p)) IN
         IF e.err # NoErr THEN e
         ELSE Ok([k |-> "UnaryOp", op |-> "not", expr |-> e.node], e.pos)
    ELSE parse("parseCompareExpr", toks, <<>>, p)

parseCompareExpr(toks, p) ==
    LET left == parse("parseArithExpr", toks, <<>>, p) IN
    IF left.err # NoErr THEN left
    ELSE IF isCompOp(toks, left.pos)
    THEN parse("parseCompareLoop", toks, <<left.node, <<>>, <<>>>>, left.pos)
    ELSE left

parseCompareLoop(toks, left, ops, rights, p) ==
    IF isCompOp(toks, p)
    THEN LET right == parse("parseArithExpr", toks, <<>>, advance(toks, p)) IN
         IF right.err # NoErr THEN right
         ELSE parse("parseCompareLoop", toks, <<left, Append(ops, getCompOp(toks, p)),
                 Append(rights, right.node)>>, right.pos)
    ELSE Ok([k |-> "Compare", left |-> left, ops |-> ops, right |-> rights], p)

parseArithExpr(toks, p) ==
    LET left == parse("parseTermExpr", toks, <<>>, p) IN
    IF left.err # NoErr THEN left ELSE parse("parseArithLoop", toks, <<left.node>>, left.pos)

\* the right operand parsed as a whole additive expression: `a - b - c`
\* nests to the right
parseArithLoopRightNesting(toks, left, p) ==
    IF currentToken(toks, p).type \in {"PLUS", "MINUS"}
    THEN LET right == parse("parseArithExpr", toks, <<>>, advance(toks, p)) IN
         IF right.err # NoErr THEN right
         ELSE Ok([k |-> "BinaryOp", left |-> left,
                  op |-> currentToken(toks, p).lexeme, right |-> right.node], right.pos)
    ELSE Ok(left, p)

parseArithLoop(toks, left, p) ==
    IF currentToken(toks, p).type \in {"PLUS", "MINUS"}
    THEN LET right == parse("parseTermExpr", toks, <<>>, advance(toks, p)) IN
         IF right.err # NoErr THEN right
         ELSE parse("parseArithLoop", toks, <<[k |-> "BinaryOp", left |-> left,
                 op |-> currentToken(toks, p).lexeme, right |-> right.node]>>, right.pos)
    ELSE Ok(left, p)

parseTermExpr(toks, p) ==
    LET left == parse("parseFactorExpr", toks, <<>>, p) IN
    IF left.err # NoErr THEN left ELSE parse("parseTermLoop", toks, <<left.node>>, left.pos)

parseTermLoop(toks, left, p) ==
    IF currentToken(toks, p).type \in {"MULTIPLY", "DIVIDE", "MODULO"}
    THEN LET right == parse("parseFactorExpr", toks, <<>>, advance(toks, p)) IN
         IF right.err # NoErr THEN right
         ELSE parse("parseTermLoop", toks, <<[k |-> "BinaryOp", left |-> left,
                 op |-> currentToken(toks, p).lexeme, right |-> right.node]>>, right.pos)
    ELSE Ok(left, p)

\* Parser.parseFactorExpr (parsePowerExpr only forwards to parseCallExpr)
parseFactorExpr(toks, p) ==
    IF currentToken(toks, p).type \in {"MINUS", "PLUS"}
    THEN LET e == parse("parseFactorExpr", toks, <<>>, advance(toks, p)) IN
         IF e.err # NoErr THEN e
         ELSE Ok([k |-> "UnaryOp", op |-> currentToken(toks, p).lexeme, expr |-> e.node], e.pos)
    ELSE parse("parseCallExpr", toks, <<>>, p)

parseCallExpr(toks, p) ==
    LET e == parse("parseAtomExpr", toks, <<>>, p) IN
    IF e.err # NoErr THEN e ELSE parse("parseCallLoop", toks, <<e.node>>, e.pos)

\* the arguments of a call after the first: the loop at COMMA of parseCallExpr
parseArgs(toks, args, p) ==
    IF currentToken(toks, p).type = "COMMA"
    THEN LET arg == parse("parseExpr", toks, <<>>, advance(toks, p)) IN
         IF arg.err # NoErr THEN arg ELSE parse("parseArgs", toks, <<Append(args, arg.node)>>,
                 arg.pos)
    ELSE Ok(args, p)

\* the for loop of parseCallExpr
parseCallLoop(toks, expr, p) ==
    CASE currentToken(toks, p).type = "LPAREN" ->
            LET q == advance(toks, p)
                first == IF currentToken(toks, q).type # "RPAREN"
                         THEN LET arg == parse("parseExpr", toks, <<>>, q) IN
                              IF arg.err # NoErr THEN arg
                              ELSE parse("parseArgs", toks, <<<<arg.node>>>>, arg.pos)
                         ELSE Ok(<<>>, q)
            IN  IF first.err # NoErr THEN first
                ELSE LET close == expect(toks, first.pos, "RPAREN") IN
                     IF close.err # NoErr THEN close
                     ELSE parse("parseCallLoop", toks, <<[k |-> "Call", func |-> expr,
                             args |-> first.node]>>, close.pos)
      [] currentToken(toks, p).type = "LBRACKET" ->
            LET slice == parse("parseExpr", toks, <<>>, advance(toks, p)) IN
            IF slice.err # NoErr THEN slice
            ELSE LET close == expect(toks, slice.pos, "RBRACKET") IN
                 IF close.err # NoErr THEN close
                 ELSE parse("parseCallLoop", toks, <<[k |-> "Subscript", value |-> expr,
                         slice |-> slice.node]>>, close.pos)
      [] OTHER -> Ok(expr, p)

\* the elements of a list literal after the first: the loop of parseList
parseListElts(toks, elts, p) ==
    IF currentToken(toks, p).type = "COMMA"
    THEN IF currentToken(toks, advance(toks, p)).type = "RBRACKET"
         THEN Ok(elts, advance(toks, p))
         ELSE LET e == parse("parseExpr", toks, <<>>, advance(toks, p)) IN
              IF e.err # NoErr THEN e ELSE parse("parseListElts", toks, <<Append(elts, e.node)>>,
                      e.pos)
    ELSE Ok(elts, p)

\* one `key : value` pair of parseDict, then the loop over the pairs that follow
parseDictPairs(toks, keys, values, p) ==
    LET key == parse("parseExpr", toks, <<>>, p) IN
    IF key.err # NoErr THEN key
    ELSE LET colon == expect(toks, key.pos, "COLON") IN
    IF colon.err # NoErr THEN colon
    ELSE LET value == parse("parseExpr", toks, <<>>, colon.pos) IN
    IF value.err # NoErr THEN value
    ELSE LET ks == Append(keys, key.node)
             vs == Append(values, value.node)
         IN  IF currentToken(toks, value.pos).type = "COMMA"
                /\ currentToken(toks, advance(toks, value.pos)).type # "RBRACE"
             THEN parse("parseDictPairs", toks, <<ks, vs>>, advance(toks, value.pos))
             ELSE Ok([keys |-> ks, values |-> vs],
                     IF currentToken(toks, value.pos).type = "COMMA"
                     THEN advance(toks, value.pos) ELSE value.pos)

\* Parser.parseAtomExpr with parseNumber, parseString, parseNameConstant,
\* parseName, parseParenExpr, parseList and parseDict
parseAtomExpr(toks, p) ==
    LET tok == currentToken(toks, p) IN
    CASE tok.type = "INT" -> Ok([k |-> "Num", n |-> Atoi(tok.lexeme)], advance(toks, p))
      [] tok.type = "FLOAT" ->
            Ok([k |-> "Num", f |-> ParseFloat(tok.lexeme)], advance(toks, p))
      [] tok.type = "STRING" -> Ok([k |-> "Str", s |-> tok.lexeme], advance(toks, p))
      [] tok.type \in {"TRUE", "FALSE", "NONE"} ->
            Ok([k |-> "NameConstant", value |-> tok.type], advance(toks, p))
      [] tok.type \in {"IDENT", "RANGE"} -> Ok([k |-> "Name", id |-> tok.lexeme], advance(toks,
              p))
      [] tok.type = "LPAREN" ->
            LET e == parse("parseExpr", toks, <<>>, advance(toks, p)) IN
            IF e.err # NoErr THEN e
            ELSE LET close == expect(toks, e.pos, "RPAREN") IN
                 IF close.err # NoErr THEN close ELSE Ok(e.node, close.pos)
      [] tok.type = "LBRACKET" ->
            LET q == advance(toks, p)
                elts == IF currentToken(toks, q).type # "RBRACKET"
                        THEN LET e == parse("parseExpr", toks, <<>>, q) IN
                             IF e.err # NoErr THEN e
                             ELSE parse("parseListElts", toks, <<<<e.node>>>>, e.pos)
                        ELSE Ok(<<>>, q)
            IN  IF elts.err # NoErr THEN elts
                ELSE LET close == expect(toks, elts.pos, "RBRACKET") IN
                     IF close.err # NoErr THEN close
                     ELSE Ok([k |-> "List", elts |-> elts.node], close.pos)
      [] tok.type = "LBRACE" ->
            LET q == advance(toks, p)
                pairs == IF currentToken(toks, q).type # "RBRACE"
                         THEN parse("parseDictPairs", toks, <<<<>>, <<>>>>, q)
                         ELSE Ok([keys |-> <<>>, values |-> <<>>], q)
            IN  IF pairs.err # NoErr THEN pairs
                ELSE LET close == expect(toks, pairs.pos, "RBRACE") IN
                     IF close.err # NoErr THEN close
                     ELSE Ok([k |-> "Dict", keys |-> pairs.node.keys,
                              values |-> pairs.node.values], close.pos)
      [] OTHER -> Fail("unexpected token " \o tok.type, toks, p, tok)

\* Parser.isAssignment: one token of lookahead past an identifier.
isAssignment(toks, p) ==
    IF currentToken(toks, p).type = "IDENT"
    THEN currentToken(toks, advance(toks, p)).type \in {"ASSIGN", "PLUS_ASSIGN", "MINUS_ASSIGN"}
    ELSE FALSE

\* Parser.parseAssignStmt
parseAssignStmt(toks, p) ==
    LET target == parse("parseExpr", toks, <<>>, p) IN
    IF target.err # NoErr THEN target
    ELSE LET tokenType == currentToken(toks, target.pos).type IN
         IF tokenType \in {"ASSIGN", "PLUS_ASSIGN", "MINUS_ASSIGN"}
         THEN LET value == parse("parseExpr", toks, <<>>, advance(toks, target.pos)) IN
              IF value.err # NoErr THEN value
              ELSE IF tokenType = "ASSIGN"
              THEN Ok([k |-> "AssignStmt", target |-> target.node, value |-> value.node],
                      value.pos)
              ELSE Ok([k |-> "AugAssignStmt", target |-> target.node,
                       op |-> IF tokenType = "PLUS_ASSIGN" THEN "+=" ELSE "-=",
                       value |-> value.node], value.pos)
         ELSE Fail("expected assignment operator, got " \o tokenType, toks, target.pos,
                   currentToken(toks, target.pos))

\* Parser.parseExprStmt
parseExprStmt(toks, p) ==
    LET e == parse("parseExpr", toks, <<>>, p) IN
    IF e.err # NoErr THEN e ELSE Ok([k |-> "ExprStmt", expr |-> e.node], e.pos)

\* Parser.parsePrintStmt
parsePrintStmt(toks, p) ==
    LET q == advance(toks, p) IN
    IF currentToken(toks, q).type \notin {"NEWLINE", "EOF"}
    THEN LET first == parse("parseExpr", toks, <<>>, q) IN
         IF first.err # NoErr THEN first
         ELSE LET values == parse("parseArgs", toks, <<<<first.node>>>>, first.pos) IN
              IF values.err # NoErr THEN values
              ELSE Ok([k |-> "PrintStmt", values |-> values.node], values.pos)
    ELSE Ok([k |-> "PrintStmt", values |-> <<>>], q)

\* Parser.parseReturnStmt; a return without a value has value NilNode
parseReturnStmt(toks, p) ==
    LET q == advance(toks, p) IN
    IF currentToken(toks, q).type \notin {"NEWLINE", "EOF"}
    THEN LET value == parse("parseExpr", toks, <<>>, q) IN
         IF value.err # NoErr THEN value
         ELSE Ok([k |-> "ReturnStmt", value |-> value.node], value.pos)
    ELSE Ok([k |-> "ReturnStmt", value |-> NilNode], q)

RECURSIVE parseParams(_, _, _)
\* the parameter loop of parseFuncDef
parseParams(toks, args, p) ==
    IF currentToken(toks, p).type = "COMMA"
    THEN IF currentToken(toks, advance(toks, p)).type # "IDENT"
         THEN Fail("expected parameter name", toks, p, currentToken(toks, advance(toks, p)))
         ELSE parseParams(toks, Append(args, currentToken(toks, advance(toks, p)).lexeme),
                          advance(toks, advance(toks, p)))
    ELSE Ok(args, p)


\* Parser.parseStmt; a skipped NEWLINE gives NilNode
parseStmt(toks, p) ==
    LET type == currentToken(toks, p).type IN
    CASE type = "IF" -> parse("parseIfStmt", toks, <<>>, p)
      [] type = "WHILE" -> parse("parseWhileStmt", toks, <<>>, p)
      [] type = "FOR" -> parse("parseForStmt", toks, <<>>, p)
      [] type = "DEF" -> parse("parseFuncDef", toks, <<>>, p)
      [] type = "RETURN" -> parseReturnStmt(toks, p)
      [] type = "PASS" -> Ok([k |-> "PassStmt"], advance(toks, p))
      [] type = "PRINT" -> parsePrintStmt(toks, p)
      [] type = "NEWLINE" -> Ok(NilNode, advance(toks, p))
      [] OTHER -> IF isAssignment(toks, p) THEN parseAssignStmt(toks, p)
                  ELSE parseExprStmt(toks, p)

\* the statement loop of parseBlock and its closing DEDENT
parseBlockLoop(toks, stmts, p) ==
    IF currentToken(toks, p).type \notin {"DEDENT", "EOF"}
    THEN LET stmt == parse("parseStmt", toks, <<>>, p) IN
         IF stmt.err # NoErr THEN stmt
         ELSE parse("parseBlockLoop", toks, <<IF stmt.node # NilNode THEN Append(stmts,
                 stmt.node) ELSE stmts>>, skipNewlines(toks, stmt.pos))
    ELSE Ok(stmts, IF currentToken(toks, p).type = "DEDENT" THEN advance(toks, p) ELSE p)

\* Parser.parseBlock
parseBlock(toks, p) ==
    LET open == expect(toks, skipNewlines(toks, p), "INDENT") IN
    IF open.err # NoErr THEN open ELSE parse("parseBlockLoop", toks, <<<<>>>>, open.pos)

\* Parser.parseIfStmt
parseIfStmt(toks, p) ==
    LET test == parse("parseExpr", toks, <<>>, advance(toks, p)) IN
    IF test.err # NoErr THEN test
    ELSE LET colon == expect(toks, test.pos, "COLON") IN
    IF colon.err # NoErr THEN colon
    ELSE LET body == parse("parseBlock", toks, <<>>, colon.pos) IN
    IF body.err # NoErr THEN body
    ELSE LET orelse ==
                 CASE currentToken(toks, body.pos).type = "ELSE" ->
                        LET c2 == expect(toks, advance(toks, body.pos), "COLON") IN
                        IF c2.err # NoErr THEN c2 ELSE parse("parseBlock", toks, <<>>, c2.pos)
                   [] currentToken(toks, body.pos).type = "ELIF" ->
                        LET elifStmt == parse("parseIfStmt", toks, <<>>, body.pos) IN
                        IF elifStmt.err # NoErr THEN elifStmt
                        ELSE Ok(<<elifStmt.node>>, elifStmt.pos)
                   [] OTHER -> Ok(<<>>, body.pos)
         IN  IF orelse.err # NoErr THEN orelse
             ELSE Ok([k |-> "IfStmt", test |-> test.node, body |-> body.node,
                      orelse |-> orelse.node], orelse.pos)

\* Parser.parseWhileStmt
parseWhileStmt(toks, p) ==
    LET test == parse("parseExpr", toks, <<>>, advance(toks, p)) IN
    IF test.err # NoErr THEN test
    ELSE LET colon == expect(toks, test.pos, "COLON") IN
    IF colon.err # NoErr THEN colon
    ELSE LET body == parse("parseBlock", toks, <<>>, colon.pos) IN
    IF body.err # NoErr THEN body
    ELSE Ok([k |-> "WhileStmt", test |-> test.node, body |-> body.node], body.pos)

\* Parser.parseForStmt
parseForStmt(toks, p) ==
    LET target == parse("parseAtomExpr", toks, <<>>, advance(toks, p)) IN
    IF target.err # NoErr THEN target
    ELSE LET in == expect(toks, target.pos, "IN") IN
    IF in.err # NoErr THEN in
    ELSE LET iter == parse("parseExpr", toks, <<>>, in.pos) IN
    IF iter.err # NoErr THEN iter
    ELSE LET colon == expect(toks, iter.pos, "COLON") IN
    IF colon.err # NoErr THEN colon
    ELSE LET body == parse("parseBlock", toks, <<>>, colon.pos) IN
    IF body.err # NoErr THEN body
    ELSE Ok([k |-> "ForStmt", target |-> target.node, iter |-> iter.node,
             body |-> body.node], body.pos)

\* Parser.parseFuncDef
parseFuncDef(toks, p) ==
    LET q == advance(toks, p) IN
    IF currentToken(toks, q).type # "IDENT"
    THEN Fail("expected function name", toks, q, currentToken(toks, q))
    ELSE LET open == expect(toks, advance(toks, q), "LPAREN") IN
    IF open.err # NoErr THEN open
    ELSE LET args == IF currentToken(toks, open.pos).type = "IDENT"
                     THEN parseParams(toks, <<currentToken(toks, open.pos).lexeme>>,
                                      advance(toks, open.pos))
                     ELSE Ok(<<>>, open.pos) IN
    IF args.err # NoErr THEN args
    ELSE LET close == expect(toks, args.pos, "RPAREN") IN
    IF close.err # NoErr THEN close
    ELSE LET colon == expect(toks, close.pos, "COLON") IN
    IF colon.err # NoErr THEN colon
    ELSE LET body == parse("parseBlock", toks, <<>>, colon.pos) IN
    IF body.err # NoErr THEN body
    ELSE Ok([k |-> "FuncDef", name |-> currentToken(toks, q).lexeme, args |-> args.node,
             body |-> body.node, line |-> currentToken(toks, p).line], body.pos)

\* the methods of Parser that call one another, by name; x holds the
\* arguments between the tokens and the position
parse(rule, toks, x, p) ==
    CASE rule = "parseExpr" -> parseExpr(toks, p)
      [] rule = "parseOrLoop" -> parseOrLoop(toks, x[1], p)
      [] rule = "parseAndExpr" -> parseAndExpr(toks, p)
      [] rule = "parseAndLoop" -> parseAndLoop(toks, x[1], p)
      [] rule = "parseNotExpr" -> parseNotExpr(toks, p)
      [] rule = "parseCompareExpr" -> parseCompareExpr(toks, p)
      [] rule = "parseCompareLoop" -> parseCompareLoop(toks, x[1], x[2], x[3], p)
      [] rule = "parseArithExpr" -> parseArithExpr(toks, p)
      [] rule = "parseArithLoop" -> parseArithLoop(toks, x[1], p)
      [] rule = "parseTermExpr" -> parseTermExpr(toks, p)
      [] rule = "parseTermLoop" -> parseTermLoop(toks, x[1], p)
      [] rule = "parseFactorExpr" -> parseFactorExpr(toks, p)
      [] rule = "parseCallExpr" -> parseCallExpr(toks, p)
      [] rule = "parseCallLoop" -> parseCallLoop(toks, x[1], p)
      [] rule = "parseArgs" -> parseArgs(toks, x[1], p)
      [] rule = "parseAtomExpr" -> parseAtomExpr(toks, p)
      [] rule = "parseListElts" -> parseListElts(toks, x[1], p)
      [] rule = "parseDictPairs" -> parseDictPairs(toks, x[1], x[2], p)
      [] rule = "parseStmt" -> parseStmt(toks, p)
      [] rule = "parseBlock" -> parseBlock(toks, p)
      [] rule = "parseBlockLoop" -> parseBlockLoop(toks, x[1], p)
      [] rule = "parseIfStmt" -> parseIfStmt(toks, p)
      [] rule = "parseWhileStmt" -> parseWhileStmt(toks, p)
      [] rule = "parseForStmt" -> parseForStmt(toks, p)
      [] rule = "parseFuncDef" -> parseFuncDef(toks, p)

RECURSIVE ParseLoop(_, _, _)
\* the statement loop of Parser.Parse
ParseLoop(toks, body, p) ==
    IF currentToken(toks, p).type # "EOF"
    THEN LET stmt == parse("parseStmt", toks, <<>>, p) IN
         IF stmt.err # NoErr THEN stmt
         ELSE ParseLoop(toks, IF stmt.node # NilNode THEN Append(body, stmt.node) ELSE body,
                        skipNewlines(toks, stmt.pos))
    ELSE Ok(body, p)

\* Parser.Parse: the module body, or the first error
Parse(toks) == ParseLoop(toks, <<>>, skipNewlines(toks, 1))

(***************************************************************************)
(* The compiler (pkg/compiler).  Instruction indices and pool indices are  *)
(* 0-based as in the source: instruction i is instructions[i + 1].         *)
(***************************************************************************)
Instruction(op, arg) == [op |-> op, arg |-> arg]

CodeObject(c, argcount, name) ==
    [instructions |-> c.instructions, consts |-> c.consts, names |-> c.names,
     varnames |-> c.varnames, argcount |-> argcount, name |-> name]

\* compiler.NewCompiler, with the scope depth the caller then sets
NewCompiler(depth) ==
    [instructions |-> <<>>, consts |-> <<>>, names |-> <<>>, varnames |-> <<>>,
     scopeDepth |-> depth, err |-> NoErr]

\* A compile error: fmt.Errorf without a position.
CompileError(c, msg) == [c EXCEPT !.err = [msg |-> msg, line |-> 0]]

\* Compiler.emit
emit(c, op, arg) == [c EXCEPT !.instructions = Append(@, Instruction(op, arg))]

\* Compiler.changeOperand
changeOperand(c, pos, arg) == [c EXCEPT !.instructions[pos + 1].arg = arg]

\* the index of the first element of seq that is x, or Len(seq)
FirstIndex(seq, x) ==
    IF \E i \in 1..Len(seq) : seq[i] = x
    THEN (CHOOSE i \in 1..Len(seq) : seq[i] = x /\ \A j \in 1..(i - 1) : seq[j] # x) - 1
    ELSE Len(seq)

\* the key of Compiler.constMap: fmt.Sprintf("%T:%s", obj, obj.String())
ConstKey(obj) == <<obj.t, String(obj, <<>>)>>

\* Compiler.addConstant: the index the constant gets
ConstIndex(c, obj) ==
    FirstIndex([i \in DOMAIN c.consts |-> ConstKey(c.consts[i])], ConstKey(obj))

\* addConstant that appends without looking the key up
addConstantAlwaysAppends(c, obj) == [c EXCEPT !.consts = Append(@, obj)]

\* Compiler.addConstant: the pool afterwards
addConstant(c, obj) ==
    IF ConstIndex(c, obj) = Len(c.consts) THEN [c EXCEPT !.consts = Append(@, obj)] ELSE c

\* Compiler.addName
NameIndex(c, name) == FirstIndex(c.names, name)

addName(c, name) ==
    IF NameIndex(c, name) = Len(c.names) THEN [c EXCEPT !.names = Append(@, name)] ELSE c

\* Compiler.addVarname
VarnameIndex(c, name) == FirstIndex(c.varnames, name)

addVarname(c, name) ==
    IF VarnameIndex(c, name) = Len(c.varnames) THEN [c EXCEPT !.varnames = Append(@, name)]
    ELSE c

\* c.emit(OpLoadConst, c.addConstant(obj))
emitConst(c, obj) == emit(addConstant(c, obj), "LOAD_CONST", ConstIndex(c, obj))

\* the store of a name target: STORE_NAME at module scope, STORE_FAST in a function
emitStore(c, id) ==
    IF c.scopeDepth = 0 THEN emit(addName(c, id), "STORE_NAME", NameIndex(c, id))
    ELSE emit(addVarname(c, id), "STORE_FAST", VarnameIndex(c, id))

\* Compiler.compileName
compileName(c, id) ==
    IF c.scopeDepth = 0 THEN emit(addName(c, id), "LOAD_NAME", NameIndex(c, id))
    ELSE IF VarnameIndex(c, id) < Len(c.varnames)
    THEN emit(c, "LOAD_FAST", VarnameIndex(c, id))
    ELSE emit(addName(c, id), "LOAD_GLOBAL", NameIndex(c, id))

\* runtime.ToPyObject of the value of a NameConstant
NameConstantObject(value) ==
    CASE value = "TRUE" -> PyBool(TRUE)
      [] value = "FALSE" -> PyBool(FALSE)
      [] OTHER -> PyNone

BinaryOpCode(op) ==
    CASE op = "+" -> "BINARY_ADD"
      [] op = "-" -> "BINARY_SUB"
      [] op = "*" -> "BINARY_MUL"
      [] op = "/" -> "BINARY_DIV"
      [] op = "%" -> "BINARY_MOD"
      [] OTHER -> ""

UnaryOpCode(op) ==
    CASE op = "+" -> "UNARY_POS"
      [] op = "-" -> "UNARY_NEG"
      [] op = "not" -> "UNARY_NOT"
      [] OTHER -> ""

CompareOpCode(op) ==
    CASE op = "==" -> "COMPARE_EQ"
      [] op = "!=" -> "COMPARE_NE"
      [] op = "<" -> "COMPARE_LT"
      [] op = "<=" -> "COMPARE_LE"
      [] op = ">" -> "COMPARE_GT"
      [] op = ">=" -> "COMPARE_GE"
      [] op = "in" -> "COMPARE_IN"
      [] OTHER -> ""

\* the jumps of `and` and `or` exchanged
BoolOpJumpSwapped(op) == IF op = "and" THEN "POP_JUMP_IF_TRUE" ELSE "POP_JUMP_IF_FALSE"

\* the jump `and` and `or` take to their common exit
BoolOpJump(op) == IF op = "and" THEN "POP_JUMP_IF_FALSE" ELSE "POP_JUMP_IF_TRUE"

RECURSIVE PatchAll(_, _, _)
\* changeOperand on every recorded position
PatchAll(c, positions, arg) ==
    IF positions = <<>> THEN c
    ELSE PatchAll(changeOperand(c, Head(positions), arg), Tail(positions), arg)

RECURSIVE compile(_, _, _)

\* Compiler.compileExpr and the compile method of every expression node
compileExpr(c, e) ==
    IF c.err # NoErr THEN c
    ELSE CASE e.k = "BinaryOp" ->
                LET c2 == compile("compileExpr", compile("compileExpr", c, <<e.left>>),
                        <<e.right>>) IN
                IF c2.err # NoErr THEN c2
                ELSE IF BinaryOpCode(e.op) = ""
                THEN CompileError(c2, "unsupported binary operator")
                ELSE emit(c2, BinaryOpCode(e.op), 0)
           [] e.k = "UnaryOp" ->
                LET c2 == compile("compileExpr", c, <<e.expr>>) IN
                IF c2.err # NoErr THEN c2
                ELSE IF UnaryOpCode(e.op) = ""
                THEN CompileError(c2, "unsupported unary operator")
                ELSE emit(c2, UnaryOpCode(e.op), 0)
           [] e.k = "BoolOp" ->
                IF Len(e.values) < 2
                THEN CompileError(c, "boolean operation needs at least 2 values")
                ELSE compile("compileBoolOpLoop", compile("compileExpr", c, <<e.values[1]>>), <<e,
                        2, <<>>>>)
           [] e.k = "Compare" -> compile("compileCompareLoop", compile("compileExpr", c,
                   <<e.left>>), <<e, 1>>)
           [] e.k = "Call" ->
                LET c2 == compile("compileExprs", compile("compileExpr", c, <<e.func>>),
                        <<e.args>>) IN
                IF c2.err # NoErr THEN c2 ELSE emit(c2, "CALL_FUNCTION", Len(e.args))
           [] e.k = "Subscript" ->
                LET c2 == compile("compileExpr", compile("compileExpr", c, <<e.value>>),
                        <<e.slice>>) IN
                IF c2.err # NoErr THEN c2 ELSE emit(c2, "BINARY_SUBSCR", 0)
           [] e.k = "Name" -> compileName(c, e.id)
           [] e.k = "Num" ->
                emitConst(c, IF IsFloatNum(e) THEN PyFloat(e.f.n, e.f.d) ELSE PyInt(e.n))
           [] e.k = "Str" -> emitConst(c, PyString(e.s))
           [] e.k = "NameConstant" -> emitConst(c, NameConstantObject(e.value))
           [] e.k = "List" ->
                LET c2 == compile("compileExprs", c, <<e.elts>>) IN
                IF c2.err # NoErr THEN c2 ELSE emit(c2, "BUILD_LIST", Len(e.elts))
           [] e.k = "Dict" ->
                LET c2 == compile("compileDictPairs", c, <<e, 1>>) IN
                IF c2.err # NoErr THEN c2 ELSE emit(c2, "BUILD_DICT", Len(e.keys))
           [] OTHER -> CompileError(c, "unsupported expression type")

\* the expressions of a sequence compiled in order
compileExprs(c, es) ==
    IF es = <<>> \/ c.err # NoErr THEN c ELSE compile("compileExprs", compile("compileExpr", c,
            <<Head(es)>>), <<Tail(es)>>)

\* Compiler.compileBoolOp: the loop over the operands after the first, then
\* the patch of every jump to the common exit
compileBoolOpLoop(c, e, i, jumpPositions) ==
    IF c.err # NoErr THEN c
    ELSE IF i <= Len(e.values)
    THEN LET dup == emit(c, "DUP_TOP", 0)
             pos == Len(dup.instructions)
             jmp == emit(emit(dup, BoolOpJump(e.op), 0), "POP_TOP", 0)
         IN  compile("compileBoolOpLoop", compile("compileExpr", jmp, <<e.values[i]>>), <<e,
                 i + 1, Append(jumpPositions, pos)>>)
    ELSE PatchAll(c, jumpPositions, Len(c.instructions))

\* Compiler.compileCompare: the loop over the operators
compileCompareLoopFirstOnly(c, e, i) ==
    IF c.err # NoErr THEN c
    ELSE IF i <= 1
    THEN LET c2 == compile("compileExpr", c, <<e.right[i]>>) IN
         IF c2.err # NoErr THEN c2
         ELSE IF CompareOpCode(e.ops[i]) = ""
         THEN CompileError(c2, "unsupported comparison operator")
         ELSE compile("compileCompareLoop", emit(c2, CompareOpCode(e.ops[i]), 0), <<e, i + 1>>)
    ELSE c

compileCompareLoop(c, e, i) ==
    IF c.err # NoErr THEN c
    ELSE IF i <= Len(e.ops)
    THEN LET c2 == compile("compileExpr", c, <<e.right[i]>>) IN
         IF c2.err # NoErr THEN c2
         ELSE IF CompareOpCode(e.ops[i]) = ""
         THEN CompileError(c2, "unsupported comparison operator")
         ELSE compile("compileCompareLoop", emit(c2, CompareOpCode(e.ops[i]), 0), <<e, i + 1>>)
    ELSE c

\* Compiler.compileDict: key then value of every pair
compileDictPairs(c, e, i) ==
    IF c.err # NoErr \/ i > Len(e.keys) THEN c
    ELSE compile("compileDictPairs", compile("compileExpr", compile("compileExpr", c,
            <<e.keys[i]>>), <<e.values[i]>>), <<e, i + 1>>)

RECURSIVE addVarnames(_, _)
\* c.addVarname(arg) for every parameter, in order
addVarnames(c, args) ==
    IF args = <<>> THEN c ELSE addVarnames(addVarname(c, Head(args)), Tail(args))


\* the statements of a body compiled in order
compileStmts(c, stmts) ==
    IF stmts = <<>> \/ c.err # NoErr THEN c
    ELSE compile("compileStmts", compile("compileStmt", c, <<Head(stmts)>>), <<Tail(stmts)>>)

\* Compiler.compilePrintStmt: the loop over the values
compilePrintLoop(c, values, i) ==
    IF c.err # NoErr \/ i > Len(values) THEN c
    ELSE LET c2 == compile("compileExpr", c, <<values[i]>>) IN
         IF c2.err # NoErr THEN c2
         ELSE LET c3 == emit(c2, "PRINT_EXPR", 0) IN
              compile("compilePrintLoop", IF i < Len(values) THEN emit(emitConst(c3,
                      PyString(<<" ">>)), "PRINT_EXPR", 0) ELSE c3, <<values, i + 1>>)

\* Compiler.compileFuncDef: the code object of a function, compiled by a
\* fresh Compiler c whose scope depth the caller has set
compileFuncDef(c, funcDef) ==
    LET withArgs == addVarnames(c, funcDef.args)
        body == compile("compileStmts", withArgs, <<funcDef.body>>)
    IN  IF body.err # NoErr THEN body
        ELSE emit(emitConst(body, PyNone), "RETURN_VALUE", 0)

\* Compiler.compileStmt and the compile method of every statement node
compileStmt(c, s) ==
    IF c.err # NoErr THEN c
    ELSE CASE s.k = "AssignStmt" ->
                LET c2 == compile("compileExpr", c, <<s.value>>) IN
                IF c2.err # NoErr THEN c2
                ELSE CASE s.target.k = "Name" -> emitStore(c2, s.target.id)
                       [] s.target.k = "Subscript" ->
                            LET c3 == compile("compileExpr", compile("compileExpr", c2,
                                    <<s.target.value>>), <<s.target.slice>>) IN
                            IF c3.err # NoErr THEN c3 ELSE emit(c3, "STORE_SUBSCR", 0)
                       [] OTHER -> CompileError(c2, "unsupported assignment target")
           [] s.k = "AugAssignStmt" ->
                IF s.target.k # "Name"
                THEN CompileError(c, "unsupported augmented assignment target")
                ELSE LET load == IF c.scopeDepth = 0
                                 THEN emit(addName(c, s.target.id), "LOAD_NAME",
                                           NameIndex(c, s.target.id))
                                 ELSE emit(addVarname(c, s.target.id), "LOAD_FAST",
                                           VarnameIndex(c, s.target.id))
                         c2 == compile("compileExpr", load, <<s.value>>)
                     IN  IF c2.err # NoErr THEN c2
                         ELSE emitStore(emit(c2, IF s.op = "+=" THEN "BINARY_ADD"
                                                 ELSE "BINARY_SUB", 0),
                                        s.target.id)
           [] s.k = "ExprStmt" ->
                LET c2 == compile("compileExpr", c, <<s.expr>>) IN
                IF c2.err # NoErr THEN c2 ELSE emit(c2, "POP_TOP", 0)
           [] s.k = "PrintStmt" ->
                LET c2 == compile("compilePrintLoop", c, <<s.values, 1>>) IN
                IF c2.err # NoErr THEN c2 ELSE emit(c2, "PRINT_NEWLINE", 0)
           [] s.k = "IfStmt" ->
                LET test == compile("compileExpr", c, <<s.test>>)
                    jumpIfFalse == Len(test.instructions)
                    body == compile("compileStmts", emit(test, "POP_JUMP_IF_FALSE", 0),
                            <<s.body>>)
                    jumpEnd == Len(body.instructions)
                    then == IF Len(s.orelse) > 0 THEN emit(body, "JUMP_FORWARD", 0) ELSE body
                    patched == changeOperand(then, jumpIfFalse, Len(then.instructions))
                    orelse == compile("compileStmts", patched, <<s.orelse>>)
                IN  IF test.err # NoErr THEN test
                    ELSE IF body.err # NoErr THEN body
                    ELSE IF Len(s.orelse) > 0
                    THEN IF orelse.err # NoErr THEN orelse
                         ELSE changeOperand(orelse, jumpEnd, Len(orelse.instructions))
                    ELSE patched
           [] s.k = "WhileStmt" ->
                LET loopStart == Len(c.instructions)
                    test == compile("compileExpr", c, <<s.test>>)
                    jumpIfFalse == Len(test.instructions)
                    body == compile("compileStmts", emit(test, "POP_JUMP_IF_FALSE", 0),
                            <<s.body>>)
                    back == emit(body, "JUMP_ABSOLUTE", loopStart)
                IN  IF test.err # NoErr THEN test
                    ELSE IF body.err # NoErr THEN body
                    ELSE changeOperand(back, jumpIfFalse, Len(back.instructions))
           [] s.k = "ForStmt" ->
                LET iter == compile("compileExpr", c, <<s.iter>>)
                    getIter == emit(iter, "GET_ITER", 0)
                    loopStart == Len(getIter.instructions)
                    forIter == emit(getIter, "FOR_ITER", 0)
                    body == compile("compileStmts", emitStore(forIter, s.target.id), <<s.body>>)
                    back == emit(body, "JUMP_ABSOLUTE", loopStart)
                IN  IF iter.err # NoErr THEN iter
                    ELSE IF s.target.k # "Name"
                    THEN CompileError(forIter, "unsupported for target")
                    ELSE IF body.err # NoErr THEN body
                    ELSE changeOperand(back, loopStart, Len(back.instructions))
           [] s.k = "FuncDef" ->
                \* compileFuncDefStmt
                LET fn == compile("compileFuncDef", NewCompiler(c.scopeDepth + 1), <<s>>)
                    pyFunc == PyFunction(CodeObject(fn, Len(s.args), s.name), s.name)
                IN  IF fn.err # NoErr THEN [c EXCEPT !.err = fn.err]
                    ELSE emit(addName(emitConst(c, pyFunc), s.name), "STORE_NAME",
                              NameIndex(c, s.name))
           [] s.k = "ReturnStmt" ->
                LET c2 == IF s.value # NilNode THEN compile("compileExpr", c, <<s.value>>)
                          ELSE emitConst(c, PyNone) IN
                IF c2.err # NoErr THEN c2 ELSE emit(c2, "RETURN_VALUE", 0)
           [] s.k = "PassStmt" -> c
           [] OTHER -> CompileError(c, "unsupported statement type")

\* the methods of Compiler that call one another, by name; x holds the
\* arguments after the compiler
compile(rule, c, x) ==
    CASE rule = "compileExpr" -> compileExpr(c, x[1])
      [] rule = "compileExprs" -> compileExprs(c, x[1])
      [] rule = "compileBoolOpLoop" -> compileBoolOpLoop(c, x[1], x[2], x[3])
      [] rule = "compileCompareLoop" -> compileCompareLoop(c, x[1], x[2])
      [] rule = "compileDictPairs" -> compileDictPairs(c, x[1], x[2])
      [] rule = "compileStmt" -> compileStmt(c, x[1])
      [] rule = "compileStmts" -> compileStmts(c, x[1])
      [] rule = "compilePrintLoop" -> compilePrintLoop(c, x[1], x[2])
      [] rule = "compileFuncDef" -> compileFuncDef(c, x[1])

\* a compileModule without the special case: every module ends with
\* LOAD_CONST none; RETURN_VALUE
compileModuleAlwaysNone(body) ==
    LET c2 == compile("compileStmts", NewCompiler(0), <<body>>) IN
    IF c2.err # NoErr THEN c2 ELSE emit(emitConst(c2, PyNone), "RETURN_VALUE", 0)

\* Compiler.compileModule: the compiler state after the module body, with
\* the special case of a final expression statement
compileModule(body) ==
    LET n == Len(body)
        c == NewCompiler(0)
    IN  IF n > 0 /\ body[n].k = "ExprStmt"
        THEN LET c2 == compile("compileExpr", compile("compileStmts", c, <<SubSeq(body, 1,
                n - 1)>>), <<body[n].expr>>) IN
             IF c2.err # NoErr THEN c2 ELSE emit(c2, "RETURN_VALUE", 0)
        ELSE LET c2 == compile("compileStmts", c, <<body>>) IN
             IF c2.err # NoErr THEN c2 ELSE emit(emitConst(c2, PyNone), "RETURN_VALUE", 0)

\* compiler.Compile
Compile(body) == compileModule(body)

(***************************************************************************)
(* The virtual machine (pkg/vm).  S gathers the VM's state: frames,        *)
(* globals, heap, out, and how Run ended (outcome, result, err).           *)
(***************************************************************************)
\* make([]object.Object, 1000) in NewFrame
StackSize == 1000
\* make([]*Frame, 1000) in NewVM
MaxFrames == 1000

Builtins == {"len", "range", "type", "str"}

\* no bytecode file yet
NoFile == [type |-> "", fields |-> <<>>]

\* no earlier run of the code object
NoRun ==
    [done |-> FALSE, outcome |-> "", result |-> GoNil, err |-> [msg |-> "", line |-> 0],
     out |-> <<>>, heap |-> <<>>]

\* vm.NewVM: the built-ins table
NewVM == [name \in Builtins |-> PyBuiltin(name)]

\* vm.NewFrame: ip 0, an empty value stack, every local none
\* NewFrame with one local per parameter instead of one per local name
NewFrameOfParameters(c) ==
    [code |-> c, ip |-> 0, stack |-> <<>>, locals |-> [i \in 1..c.argcount |-> PyNone]]

NewFrame(c) ==
    [code |-> c, ip |-> 0, stack |-> <<>>, locals |-> [i \in 1..Len(c.varnames) |-> PyNone]]

\* a Go run-time panic: the process ends with a goroutine trace
Panic(S, msg) == [S EXCEPT !.outcome = "panic", !.err = [msg |-> msg, line |-> 0]]

\* an error that is recorded while Run goes on
RuntimeErrorGoesOn(S, msg) == [S EXCEPT !.err = [msg |-> msg, line |-> 0]]

\* `return nil, err` in Run
RuntimeError(S, msg) == [S EXCEPT !.outcome = "error", !.err = [msg |-> msg, line |-> 0]]

\* VM.currentFrame's value stack
Stack(S) == S.frames[Len(S.frames)].stack

\* Frame.push on the current frame: Stack[SP] = obj; SP++
push(S, obj) ==
    IF Len(Stack(S)) >= StackSize THEN Panic(S, "index out of range")
    ELSE [S EXCEPT !.frames[Len(S.frames)].stack = Append(@, obj)]

\* Frame.pop n times on the current frame (the caller has checked the depth)
drop(S, n) ==
    [S EXCEPT !.frames[Len(S.frames)].stack = SubSeq(@, 1, Len(@) - n)]

\* the i-th object from the top of the current frame's stack, 1 the top
peekAt(S, i) == Stack(S)[Len(Stack(S)) - i + 1]

\* Frame.peek
peek(S) == IF Len(Stack(S)) <= 0 THEN GoNil ELSE peekAt(S, 1)

\* frame.IP = target
jump(S, target) == [S EXCEPT !.frames[Len(S.frames)].ip = target]

\* VM.pushFrame
pushFrame(S, frame) ==
    IF Len(S.frames) >= MaxFrames THEN Panic(S, "index out of range")
    ELSE [S EXCEPT !.frames = Append(@, frame)]

\* VM.popFrame
popFrame(S) == [S EXCEPT !.frames = SubSeq(@, 1, Len(@) - 1)]

\* a new list object on the heap, pushed on the current frame
pushNewList(S, elems) ==
    push([S EXCEPT !.heap = Append(@, [t |-> "list", elems |-> elems])],
         PyList(Len(S.heap) + 1))

\* Go's integer division, which truncates toward zero
\* the quotient rounded toward minus infinity, as Python's // does
TruncDivFloors(a, b) == IF b > 0 THEN a \div b ELSE (-a) \div (-b)

TruncDiv(a, b) ==
    IF (a >= 0) = (b > 0) THEN (IF a >= 0 THEN a ELSE -a) \div (IF b > 0 THEN b ELSE -b)
    ELSE -((IF a >= 0 THEN a ELSE -a) \div (IF b > 0 THEN b ELSE -b))

\* runtime.ToGoInt and vm.toGoInt: [ok, v], or [ok = FALSE, msg]
toGoInt(v) ==
    CASE v.t = "int" -> [ok |-> TRUE, v |-> v.v]
      [] v.t = "float" -> [ok |-> TRUE, v |-> TruncDiv(v.n, v.d)]
      [] v.t = "bool" -> [ok |-> TRUE, v |-> IF v.v THEN 1 ELSE 0]
      [] OTHER -> [ok |-> FALSE, msg |-> "cannot convert " \o Type(v) \o " to int"]

\* vm.toGoString: the value of a string, the String() of anything else
toGoString(v, h) == IF v.t = "str" THEN v.v ELSE String(v, h)

\* the characters of a type name, for type()
TypeString(t) ==
    CASE t = "int" -> <<"i", "n", "t">>
      [] t = "float" -> <<"f", "l", "o", "a", "t">>
      [] t = "str" -> <<"s", "t", "r">>
      [] t = "bool" -> <<"b", "o", "o", "l">>
      [] t = "list" -> <<"l", "i", "s", "t">>
      [] t = "dict" -> <<"d", "i", "c", "t">>
      [] OTHER -> <<t>>

\* VM.binaryOp: [ok, value] or [ok = FALSE, msg]
binaryOp(left, right, op) ==
    LET ints == left.t = "int" /\ right.t = "int"
        floats == {left.t, right.t} \subseteq {"int", "float"} /\ ~ints
        l == FloatOf(left)
        r == FloatOf(right)
        Value(v) == [ok |-> TRUE, value |-> v]
        Error(msg) == [ok |-> FALSE, msg |-> msg]
    IN  CASE op = "+" /\ ints -> Value(PyInt(left.v + right.v))
          [] op = "+" /\ floats -> Value(PyFloat(l.n * r.d + r.n * l.d, l.d * r.d))
          [] op = "+" /\ left.t = "str" /\ right.t = "str" -> Value(PyString(left.v \o right.v))
          [] op = "-" /\ ints -> Value(PyInt(left.v - right.v))
          [] op = "-" /\ floats -> Value(PyFloat(l.n * r.d - r.n * l.d, l.d * r.d))
          [] op = "*" /\ ints -> Value(PyInt(left.v * right.v))
          [] op = "*" /\ floats -> Value(PyFloat(l.n * r.n, l.d * r.d))
          [] op = "/" /\ ints ->
                IF right.v = 0 THEN Error("division by zero")
                ELSE Value(PyInt(TruncDiv(left.v, right.v)))
          [] op = "/" /\ floats ->
                IF r.n = 0 THEN Error("division by zero")
                ELSE Value(PyFloat(l.n * r.d, l.d * r.n))
          [] op = "%" /\ ints ->
                IF right.v = 0 THEN Error("integer division or modulo by zero")
                ELSE Value(PyInt(left.v - right.v * TruncDiv(left.v, right.v)))
          [] OTHER -> Error("unsupported operand type(s) for " \o op \o ": '" \o Type(left)
                            \o "' and '" \o Type(right) \o "'")

\* VM.unaryOp
unaryOp(operand, op) ==
    IF operand.t = "int"
    THEN [ok |-> TRUE, value |-> IF op = "+" THEN operand ELSE PyInt(-operand.v)]
    ELSE IF operand.t = "float"
    THEN [ok |-> TRUE, value |-> IF op = "+" THEN operand ELSE PyFloat(-operand.n, operand.d)]
    ELSE [ok |-> FALSE, msg |-> "bad operand type for unary " \o op \o ": '"
                                \o Type(operand) \o "'"]

\* the position of a character in the code-unit order of the characters used
CharCode(ch) ==
    LET order == <<" ", "!", "\"", ",", "-", "0", "1", "2", "3", "4", "5", "6", "7", "8", "9",
                   ":", "<", "=", ">", "A", "B", "C", "F", "N", "T", "[", "]",
                   "a", "b", "c", "d", "e", "f", "g", "h", "i", "l", "n", "o", "r", "s",
                   "t", "u", "x", "y", "z", "{", "}">>
    IN  IF \E i \in 1..Len(order) : order[i] = ch
        THEN CHOOSE i \in 1..Len(order) : order[i] = ch ELSE 0

RECURSIVE StringLess(_, _)
\* Go's < on strings: lexicographic by code unit
StringLess(a, b) ==
    CASE b = <<>> -> FALSE
      [] a = <<>> -> TRUE
      [] Head(a) = Head(b) -> StringLess(Tail(a), Tail(b))
      [] OTHER -> CharCode(Head(a)) < CharCode(Head(b))

\* VM.compareOp
compareOp(left, right, op) ==
    LET Less(a, b) ==
            CASE a.t = "str" -> StringLess(a.v, b.v)
              [] a.t = "int" /\ b.t = "int" -> a.v < b.v
              [] OTHER -> FloatOf(a).n * FloatOf(b).d < FloatOf(b).n * FloatOf(a).d
    IN
    IF \/ left.t = "str" /\ right.t = "str"
       \/ {left.t, right.t} \subseteq {"int", "float"}
    THEN [ok |-> TRUE,
          value |-> PyBool(CASE op = "<" -> Less(left, right)
                             [] op = "<=" -> ~Less(right, left)
                             [] op = ">" -> Less(right, left)
                             [] OTHER -> ~Less(left, right))]
    ELSE [ok |-> FALSE, msg |-> "'" \o op \o "' not supported between instances of '"
                                \o Type(left) \o "' and '" \o Type(right) \o "'"]

\* VM.inOp
inOp(left, right, h) ==
    CASE right.t = "list" ->
            [ok |-> TRUE,
             value |-> PyBool(\E i \in 1..Len(h[right.ref].elems) :
                                 Equal(left, h[right.ref].elems[i], h))]
      [] right.t = "dict" ->
            [ok |-> TRUE, value |-> PyBool(String(left, h) \in DOMAIN h[right.ref].pairs)]
      [] right.t = "str" /\ left.t = "str" ->
            [ok |-> TRUE,
             value |-> PyBool(\E i \in 0..(Len(right.v) - Len(left.v)) :
                                 SubSeq(right.v, i + 1, i + Len(left.v)) = left.v)]
      [] OTHER -> [ok |-> FALSE, msg |-> "argument of type '" \o Type(right)
                                         \o "' is not iterable"]

\* VM.subscript
subscript(container, index, h) ==
    LET idx == toGoInt(index)
        Value(v) == [ok |-> TRUE, value |-> v]
        Error(msg) == [ok |-> FALSE, msg |-> msg]
    IN  CASE container.t = "list" ->
                IF ~idx.ok THEN Error(idx.msg)
                ELSE IF idx.v < 0 \/ idx.v >= Len(h[container.ref].elems)
                THEN Error("list index out of range")
                ELSE Value(h[container.ref].elems[idx.v + 1])
          [] container.t = "dict" ->
                IF String(index, h) \notin DOMAIN h[container.ref].pairs
                THEN Error("KeyError")
                ELSE Value(h[container.ref].pairs[String(index, h)])
          [] container.t = "str" ->
                IF ~idx.ok THEN Error(idx.msg)
                ELSE IF idx.v < 0 \/ idx.v >= Len(container.v)
                THEN Error("string index out of range")
                ELSE Value(PyString(<<container.v[idx.v + 1]>>))
          [] OTHER -> Error("'" \o Type(container) \o "' object is not subscriptable")

\* PyDict.Set on a dict object d of the heap
DictSet(d, key, value, h) ==
    LET keyStr == String(key, h) IN
    [t |-> "dict",
     keys |-> IF keyStr \in DOMAIN d.pairs THEN d.keys ELSE Append(d.keys, keyStr),
     pairs |-> [k \in DOMAIN d.pairs \cup {keyStr} |-> IF k = keyStr THEN value ELSE d.pairs[k]]]

\* VM.storeSubscript: the heap afterwards, or an error
storeSubscript(container, index, value, h) ==
    LET idx == toGoInt(index)
        Error(msg) == [ok |-> FALSE, msg |-> msg]
    IN  CASE container.t = "list" ->
                IF ~idx.ok THEN Error(idx.msg)
                ELSE IF idx.v < 0 \/ idx.v >= Len(h[container.ref].elems)
                THEN Error("list index out of range")
                ELSE [ok |-> TRUE, heap |-> [h EXCEPT ![container.ref].elems[idx.v + 1] = value]]
          [] container.t = "dict" ->
                [ok |-> TRUE,
                 heap |-> [h EXCEPT ![container.ref] = DictSet(@, index, value, h)]]
          [] OTHER -> Error("'" \o Type(container) \o "' object does not support item assignment")

RECURSIVE RangeElements(_, _, _)
\* the loops of range(): i from start by step while i < stop (i > stop for step < 0)
RangeElements(start, stop, step) ==
    IF (step > 0 /\ start < stop) \/ (step < 0 /\ start > stop)
    THEN <<PyInt(start)>> \o RangeElements(start + step, stop, step)
    ELSE <<>>

\* the native function of a built-in applied to args: the state after the
\* result is pushed, or after the error is returned
callBuiltin(S, name, args) ==
    LET n == Len(args)
        ints == [i \in 1..n |-> toGoInt(args[i])]
    IN  CASE name = "len" ->
                IF n # 1 THEN RuntimeError(S, "len() takes exactly one argument (" \o ToString(n)
                                                \o " given)")
                ELSE CASE args[1].t = "str" -> push(S, PyInt(Len(args[1].v)))
                       [] args[1].t = "list" -> push(S, PyInt(Len(S.heap[args[1].ref].elems)))
                       [] args[1].t = "dict" -> push(S, PyInt(Len(S.heap[args[1].ref].keys)))
                       [] OTHER -> RuntimeError(S, "object of type '" \o Type(args[1])
                                                   \o "' has no len()")
          [] name = "range" ->
                IF n < 1 \/ n > 3 THEN RuntimeError(S, "range() takes 1 to 3 arguments")
                ELSE IF \E i \in 1..n : ~ints[i].ok
                THEN RuntimeError(S, ints[CHOOSE i \in 1..n :
                                            ~ints[i].ok /\ \A j \in 1..(i - 1) : ints[j].ok].msg)
                ELSE IF n = 3 /\ ints[3].v = 0
                THEN RuntimeError(S, "range() step argument must not be zero")
                ELSE pushNewList(S, RangeElements(IF n = 1 THEN 0 ELSE ints[1].v,
                                                  IF n = 1 THEN ints[1].v ELSE ints[2].v,
                                                  IF n = 3 THEN ints[3].v ELSE 1))
          [] name = "type" ->
                IF n # 1 THEN RuntimeError(S, "type() takes exactly one argument")
                ELSE push(S, PyString(TypeString(Type(args[1]))))
          [] OTHER ->
                IF n # 1 THEN RuntimeError(S, "str() takes exactly one argument")
                ELSE push(S, PyString(toGoString(args[1], S.heap)))

\* case OpLoadName / OpLoadGlobal: globals, then built-ins, else an error
execLoadName(S, name, prefix) ==
    IF name \in DOMAIN S.globals THEN push(S, S.globals[name])
    ELSE IF name \in DOMAIN S.builtins THEN push(S, S.builtins[name])
    ELSE RuntimeError(S, prefix \o "name '" \o name \o "' is not defined")

\* a store into one table of names for globals and built-ins: a name the
\* built-ins hold is overwritten there
execStoreNameOneTable(S, name) ==
    IF Len(Stack(S)) < 1 THEN Panic(S, "stack underflow")
    ELSE IF name \in DOMAIN S.builtins
    THEN [drop(S, 1) EXCEPT !.builtins[name] = peek(S)]
    ELSE [drop(S, 1) EXCEPT !.globals = [n \in DOMAIN @ \cup {name} |->
                                            IF n = name THEN peek(S) ELSE @[n]]]

\* case OpStoreName / OpStoreGlobal
execStoreName(S, name) ==
    IF Len(Stack(S)) < 1 THEN Panic(S, "stack underflow")
    ELSE [drop(S, 1) EXCEPT !.globals = [n \in DOMAIN @ \cup {name} |->
                                            IF n = name THEN peek(S) ELSE @[n]]]

\* a STORE_FAST into one local vector that all live frames share: the slot
\* is written in every frame that has it
execStoreFastShared(S, arg) ==
    IF Len(Stack(S)) < 1 THEN Panic(S, "stack underflow")
    ELSE [drop(S, 1) EXCEPT !.frames = [i \in DOMAIN @ |->
                                           IF arg + 1 <= Len(@[i].locals)
                                           THEN [@[i] EXCEPT !.locals[arg + 1] = peek(S)]
                                           ELSE @[i]]]

\* case OpStoreFast
execStoreFast(S, arg) ==
    IF Len(Stack(S)) < 1 THEN Panic(S, "stack underflow")
    ELSE [drop(S, 1) EXCEPT !.frames[Len(S.frames)].locals[arg + 1] = peek(S)]

\* the binary cases of Run: pop right, pop left, apply, push or return the error
execBinary(S, method, sym) ==
    IF Len(Stack(S)) < 2 THEN Panic(S, "stack underflow")
    ELSE IF peekAt(S, 2).t = "nil" \/ peekAt(S, 1).t = "nil"
    THEN Panic(S, "nil pointer dereference")
    ELSE LET left == peekAt(S, 2)
             right == peekAt(S, 1)
             r == CASE method = "binaryOp" -> binaryOp(left, right, sym)
                    [] method = "compareOp" -> compareOp(left, right, sym)
                    [] method = "inOp" -> inOp(left, right, S.heap)
                    [] OTHER -> subscript(left, right, S.heap)
         IN
         IF r.ok THEN push(drop(S, 2), r.value) ELSE RuntimeError(drop(S, 2), r.msg)

\* case OpJumpForward
execJumpForward(S, arg) == jump(S, S.frames[Len(S.frames)].ip + arg)

\* case OpPopJumpIfFalse / OpPopJumpIfTrue
execPopJumpIf(S, arg, truthy) ==
    IF Len(Stack(S)) < 1 THEN Panic(S, "stack underflow")
    ELSE IF peek(S).t = "nil" THEN Panic(S, "nil pointer dereference")
    ELSE IF IsTruthy(peek(S), S.heap) = truthy THEN jump(drop(S, 1), arg) ELSE drop(S, 1)

\* case OpBuildDict: n times pop value, pop key, dict.Set(key, value)
execBuildDict(S, n) ==
    LET st == Stack(S)
        RECURSIVE Build(_, _)
        Build(d, i) == IF i >= n THEN d
                       ELSE Build(DictSet(d, st[Len(st) - 2 * i - 1], st[Len(st) - 2 * i],
                                          S.heap), i + 1)
        S2 == drop(S, 2 * n)
    IN  IF Len(st) < 2 * n THEN Panic(S, "stack underflow")
        ELSE push([S2 EXCEPT !.heap = Append(@, Build([t |-> "dict", keys |-> <<>>,
                                                      pairs |-> <<>>], 0))],
                  PyDict(Len(S.heap) + 1))

\* OpCallFunction without the test of the number of arguments: missing
\* arguments stay None and extra ones are dropped
execCallFunctionAnyArity(S, n) ==
    IF Len(Stack(S)) < n + 1 THEN Panic(S, "stack underflow")
    ELSE LET args == SubSeq(Stack(S), Len(Stack(S)) - n + 1, Len(Stack(S)))
             function == peekAt(S, n + 1)
             S2 == drop(S, n + 1)
         IN  CASE function.t = "builtin_function_or_method" ->
                    callBuiltin(S2, function.name, args)
               [] function.t = "function" ->
                    pushFrame(S2, [NewFrame(function.code) EXCEPT
                                      !.locals = [i \in DOMAIN @ |->
                                                     IF i <= n THEN args[i] ELSE @[i]]])
               [] OTHER -> RuntimeError(S2, "'" \o Type(function) \o "' object is not callable")

\* case OpCallFunction
execCallFunction(S, n) ==
    IF Len(Stack(S)) < n + 1 THEN Panic(S, "stack underflow")
    ELSE LET args == SubSeq(Stack(S), Len(Stack(S)) - n + 1, Len(Stack(S)))
             function == peekAt(S, n + 1)
             S2 == drop(S, n + 1)
         IN  CASE function.t = "builtin_function_or_method" ->
                    callBuiltin(S2, function.name, args)
               [] function.t = "function" ->
                    IF n # function.code.argcount
                    THEN RuntimeError(S2, "function takes " \o ToString(function.code.argcount)
                                              \o " arguments but " \o ToString(n)
                                              \o " were given")
                    ELSE pushFrame(S2, [NewFrame(function.code) EXCEPT
                                           !.locals = [i \in DOMAIN @ |->
                                                          IF i <= n THEN args[i] ELSE @[i]]])
               [] function.t = "nil" -> Panic(S2, "nil pointer dereference")
               [] OTHER -> RuntimeError(S2, "'" \o Type(function) \o "' object is not callable")

\* OpReturnValue that ends the run whatever frames remain
execReturnValueEndsRun(S) ==
    IF Len(Stack(S)) < 1 THEN Panic(S, "stack underflow")
    ELSE [popFrame(S) EXCEPT !.outcome = "value", !.result = peek(S)]

\* case OpReturnValue
execReturnValue(S) ==
    IF Len(Stack(S)) < 1 THEN Panic(S, "stack underflow")
    ELSE IF Len(S.frames) > 1 THEN push(popFrame(S), peek(S))
    ELSE [popFrame(S) EXCEPT !.outcome = "value", !.result = peek(S)]

\* case OpPrintExpr
execPrintExpr(S) ==
    IF Len(Stack(S)) < 1 THEN Panic(S, "stack underflow")
    ELSE IF peek(S).t = "nil" THEN Panic(S, "nil pointer dereference")
    ELSE [drop(S, 1) EXCEPT !.out = @ \o String(peek(S), S.heap)]

\* OpGetIter that iterates over a copy of the list
execGetIterCopiesList(S) ==
    IF Len(Stack(S)) < 1 THEN Panic(S, "stack underflow")
    ELSE CASE peek(S).t = "list" -> pushNewList(drop(S, 1), S.heap[peek(S).ref].elems)
           [] peek(S).t = "str" ->
                pushNewList(drop(S, 1), [i \in 1..Len(peek(S).v) |-> PyString(<<peek(S).v[i]>>)])
           [] OTHER -> RuntimeError(drop(S, 1), "OpGetIter: '" \o Type(peek(S))
                                                \o "' object is not iterable")

\* case OpGetIter
execGetIter(S) ==
    IF Len(Stack(S)) < 1 THEN Panic(S, "stack underflow")
    ELSE CASE peek(S).t = "list" -> S
           [] peek(S).t = "str" ->
                pushNewList(drop(S, 1), [i \in 1..Len(peek(S).v) |-> PyString(<<peek(S).v[i]>>)])
           [] peek(S).t = "nil" -> Panic(S, "nil pointer dereference")
           [] OTHER -> RuntimeError(drop(S, 1), "OpGetIter: '" \o Type(peek(S))
                                                \o "' object is not iterable")

\* OpForIter that leaves the index on the stack when the list is exhausted
execForIterKeepsIndex(S, arg) ==
    IF Len(Stack(S)) < 1 THEN Panic(S, "stack underflow")
    ELSE LET iterable == peek(S)
             hasIndex == Len(Stack(S)) > 1 /\ peekAt(S, 2).t = "int"
             iterIndex == IF hasIndex THEN peekAt(S, 2).v ELSE 0
             S2 == drop(S, IF hasIndex THEN 2 ELSE 1)
         IN  CASE iterable.t = "list" ->
                    IF iterIndex < Len(S.heap[iterable.ref].elems)
                    THEN push(push(push(S2, PyInt(iterIndex + 1)), iterable),
                              S.heap[iterable.ref].elems[iterIndex + 1])
                    ELSE jump(drop(S, 1), arg)
               [] OTHER -> RuntimeError(S2, "OpForIter:'" \o Type(iterable)
                                            \o "' object is not iterable")

\* OpForIter that pushes the index it read instead of the next one
execForIterSameIndex(S, arg) ==
    IF Len(Stack(S)) < 1 THEN Panic(S, "stack underflow")
    ELSE LET iterable == peek(S)
             hasIndex == Len(Stack(S)) > 1 /\ peekAt(S, 2).t = "int"
             iterIndex == IF hasIndex THEN peekAt(S, 2).v ELSE 0
             S2 == drop(S, IF hasIndex THEN 2 ELSE 1)
         IN  CASE iterable.t = "list" ->
                    IF iterIndex < Len(S.heap[iterable.ref].elems)
                    THEN IF iterIndex < 0 THEN Panic(S2, "index out of range")
                         ELSE push(push(push(S2, PyInt(iterIndex)), iterable),
                                   S.heap[iterable.ref].elems[iterIndex + 1])
                    ELSE jump(S2, arg)
               [] iterable.t = "nil" -> Panic(S2, "nil pointer dereference")
               [] OTHER -> RuntimeError(S2, "OpForIter:'" \o Type(iterable)
                                            \o "' object is not iterable")

\* case OpForIter: the cursor is an integer index under the iterable
execForIter(S, arg) ==
    IF Len(Stack(S)) < 1 THEN Panic(S, "stack underflow")
    ELSE LET iterable == peek(S)
             hasIndex == Len(Stack(S)) > 1 /\ peekAt(S, 2).t = "int"
             iterIndex == IF hasIndex THEN peekAt(S, 2).v ELSE 0
             S2 == drop(S, IF hasIndex THEN 2 ELSE 1)
         IN  CASE iterable.t = "list" ->
                    IF iterIndex < Len(S.heap[iterable.ref].elems)
                    THEN IF iterIndex < 0 THEN Panic(S2, "index out of range")
                         ELSE push(push(push(S2, PyInt(iterIndex + 1)), iterable),
                                   S.heap[iterable.ref].elems[iterIndex + 1])
                    ELSE jump(S2, arg)
               [] iterable.t = "nil" -> Panic(S2, "nil pointer dereference")
               [] OTHER -> RuntimeError(S2, "OpForIter:'" \o Type(iterable)
                                            \o "' object is not iterable")

\* the equality cases of Run: left.Equal(right), negated for !=
execCompareEq(S, negate) ==
    IF Len(Stack(S)) < 2 THEN Panic(S, "stack underflow")
    ELSE IF peekAt(S, 2).t = "nil" THEN Panic(S, "nil pointer dereference")
    ELSE push(drop(S, 2), PyBool(Equal(peekAt(S, 2), peekAt(S, 1), S.heap) # negate))

\* case OpStoreSubscr: pop index, container, value
execStoreSubscr(S) ==
    IF Len(Stack(S)) < 3 THEN Panic(S, "stack underflow")
    ELSE IF peekAt(S, 2).t = "nil" \/ peekAt(S, 1).t = "nil"
    THEN Panic(S, "nil pointer dereference")
    ELSE LET r == storeSubscript(peekAt(S, 2), peekAt(S, 1), peekAt(S, 3), S.heap) IN
         IF r.ok THEN [drop(S, 3) EXCEPT !.heap = r.heap] ELSE RuntimeError(drop(S, 3), r.msg)

\* the unary cases of Run
execUnary(S, op) ==
    IF Len(Stack(S)) < 1 THEN Panic(S, "stack underflow")
    ELSE IF peek(S).t = "nil" THEN Panic(S, "nil pointer dereference")
    ELSE IF op = "not" THEN push(drop(S, 1), PyBool(~IsTruthy(peek(S), S.heap)))
    ELSE LET r == unaryOp(peek(S), op) IN
         IF r.ok THEN push(drop(S, 1), r.value) ELSE RuntimeError(drop(S, 1), r.msg)

\* case OpJumpIfFalse / OpJumpIfTrue: the tested object stays on the stack
execJumpIf(S, arg, truthy) ==
    IF peek(S).t = "nil" THEN Panic(S, "nil pointer dereference")
    ELSE IF IsTruthy(peek(S), S.heap) = truthy THEN jump(S, arg) ELSE S

\* OpBuildList that hands out a list it has built before for the same
\* elements, as a literal kept in a pool would be
execBuildListPooled(S, n) ==
    LET elems == SubSeq(Stack(S), Len(Stack(S)) - n + 1, Len(Stack(S)))
        built == [t |-> "list", elems |-> elems]
    IN  IF Len(Stack(S)) < n THEN Panic(S, "stack underflow")
        ELSE IF \E r \in DOMAIN S.heap : S.heap[r] = built
        THEN push(drop(S, n), PyList(CHOOSE r \in DOMAIN S.heap : S.heap[r] = built))
        ELSE pushNewList(drop(S, n), elems)

\* case OpBuildList
execBuildList(S, n) ==
    IF Len(Stack(S)) < n THEN Panic(S, "stack underflow")
    ELSE pushNewList(drop(S, n), SubSeq(Stack(S), Len(Stack(S)) - n + 1, Len(Stack(S))))

\* case OpRotTwo / OpRotThree: pop n, push them back as the code does
execRot(S, n) ==
    IF Len(Stack(S)) < n THEN Panic(S, "stack underflow")
    ELSE IF n = 2 THEN push(push(drop(S, 2), peekAt(S, 1)), peekAt(S, 2))
    ELSE push(push(push(drop(S, 3), peekAt(S, 1)), peekAt(S, 3)), peekAt(S, 2))

\* the switch of Run on instruction.Op; the frame's IP is already advanced
execute(S, instruction) ==
    LET op == instruction.op
        arg == instruction.arg
        frame == S.frames[Len(S.frames)]
        Binary(sym) == execBinary(S, "binaryOp", sym)
        Compare(sym) == execBinary(S, "compareOp", sym)
    IN  CASE op = "LOAD_CONST" -> push(S, frame.code.consts[arg + 1])
          [] op = "LOAD_NAME" -> execLoadName(S, frame.code.names[arg + 1], "")
          [] op = "LOAD_GLOBAL" -> execLoadName(S, frame.code.names[arg + 1], "global ")
          [] op \in {"STORE_NAME", "STORE_GLOBAL"} -> execStoreName(S, frame.code.names[arg + 1])
          [] op = "LOAD_FAST" -> push(S, frame.locals[arg + 1])
          [] op = "STORE_FAST" -> execStoreFast(S, arg)
          [] op = "BINARY_ADD" -> Binary("+")
          [] op = "BINARY_SUB" -> Binary("-")
          [] op = "BINARY_MUL" -> Binary("*")
          [] op = "BINARY_DIV" -> Binary("/")
          [] op = "BINARY_MOD" -> Binary("%")
          [] op = "UNARY_POS" -> execUnary(S, "+")
          [] op = "UNARY_NEG" -> execUnary(S, "-")
          [] op = "UNARY_NOT" -> execUnary(S, "not")
          [] op = "COMPARE_EQ" -> execCompareEq(S, FALSE)
          [] op = "COMPARE_NE" -> execCompareEq(S, TRUE)
          [] op = "COMPARE_LT" -> Compare("<")
          [] op = "COMPARE_LE" -> Compare("<=")
          [] op = "COMPARE_GT" -> Compare(">")
          [] op = "COMPARE_GE" -> Compare(">=")
          [] op = "COMPARE_IN" -> execBinary(S, "inOp", "in")
          [] op = "JUMP_FORWARD" -> execJumpForward(S, arg)
          [] op = "JUMP_IF_FALSE" -> execJumpIf(S, arg, FALSE)
          [] op = "JUMP_IF_TRUE" -> execJumpIf(S, arg, TRUE)
          [] op = "JUMP_ABSOLUTE" -> jump(S, arg)
          [] op = "POP_JUMP_IF_FALSE" -> execPopJumpIf(S, arg, FALSE)
          [] op = "POP_JUMP_IF_TRUE" -> execPopJumpIf(S, arg, TRUE)
          [] op = "BUILD_LIST" -> execBuildList(S, arg)
          [] op = "BUILD_DICT" -> execBuildDict(S, arg)
          [] op = "BINARY_SUBSCR" -> execBinary(S, "subscript", "[]")
          [] op = "STORE_SUBSCR" -> execStoreSubscr(S)
          [] op = "CALL_FUNCTION" -> execCallFunction(S, arg)
          [] op = "RETURN_VALUE" -> execReturnValue(S)
          [] op = "PRINT_EXPR" -> execPrintExpr(S)
          [] op = "PRINT_NEWLINE" -> [S EXCEPT !.out = Append(@, "\n")]
          [] op = "POP_TOP" -> IF Len(Stack(S)) < 1 THEN Panic(S, "stack underflow")
                               ELSE drop(S, 1)
          [] op = "ROT_TWO" -> execRot(S, 2)
          [] op = "ROT_THREE" -> execRot(S, 3)
          [] op = "DUP_TOP" -> push(S, peek(S))
          [] op = "GET_ITER" -> execGetIter(S)
          [] op = "FOR_ITER" -> execForIter(S, arg)
          [] op = "NOP" -> S
          [] OTHER -> RuntimeError(S, "unknown opcode: " \o op)

\* one iteration of the loop of Run, or its exit once no frame is left
RunLoop(S) ==
    LET frame == S.frames[Len(S.frames)] IN
    IF Len(S.frames) = 0 THEN [S EXCEPT !.outcome = "value", !.result = PyNone]
    ELSE IF frame.ip >= Len(frame.code.instructions) THEN popFrame(S)
    ELSE execute(jump(S, frame.ip + 1), frame.code.instructions[frame.ip + 1])

(***************************************************************************)
(* The lexer (pkg/lexer) from the lexeme up                                *)
(***************************************************************************)
\* lexer.LookupIdent over the keywords table
LookupIdent(ident) ==
    CASE ident = "if" -> "IF"         [] ident = "elif" -> "ELIF"
      [] ident = "else" -> "ELSE"     [] ident = "while" -> "WHILE"
      [] ident = "for" -> "FOR"       [] ident = "in" -> "IN"
      [] ident = "def" -> "DEF"       [] ident = "return" -> "RETURN"
      [] ident = "print" -> "PRINT"   [] ident = "True" -> "TRUE"
      [] ident = "False" -> "FALSE"   [] ident = "None" -> "NONE"
      [] ident = "and" -> "AND"       [] ident = "or" -> "OR"
      [] ident = "not" -> "NOT"       [] ident = "range" -> "RANGE"
      [] ident = "pass" -> "PASS"     [] OTHER -> "IDENT"

\* Lexer.NextToken on one lexeme: a number, a string literal, an operator or
\* delimiter, or an identifier or keyword
NextToken(word, line) ==
    LET x == word.text IN
    CASE word.kind = "num" -> Token("INT", x, line)
      [] word.kind = "float" -> Token("FLOAT", x, line)
      [] word.kind = "str" -> Token("STRING", x, line)
      [] x = "=" -> Token("ASSIGN", x, line)        [] x = "==" -> Token("EQ", x, line)
      [] x = "!=" -> Token("NOT_EQ", x, line)       [] x = "<" -> Token("LT", x, line)
      [] x = "<=" -> Token("LTE", x, line)          [] x = ">" -> Token("GT", x, line)
      [] x = ">=" -> Token("GTE", x, line)          [] x = "+" -> Token("PLUS", x, line)
      [] x = "+=" -> Token("PLUS_ASSIGN", x, line)  [] x = "-" -> Token("MINUS", x, line)
      [] x = "-=" -> Token("MINUS_ASSIGN", x, line) [] x = "*" -> Token("MULTIPLY", x, line)
      [] x = "/" -> Token("DIVIDE", x, line)        [] x = "%" -> Token("MODULO", x, line)
      [] x = "," -> Token("COMMA", x, line)         [] x = ":" -> Token("COLON", x, line)
      [] x = "(" -> Token("LPAREN", x, line)        [] x = ")" -> Token("RPAREN", x, line)
      [] x = "[" -> Token("LBRACKET", x, line)      [] x = "]" -> Token("RBRACKET", x, line)
      [] x = "{" -> Token("LBRACE", x, line)        [] x = "}" -> Token("RBRACE", x, line)
      [] OTHER -> Token(LookupIdent(x), x, line)

\* handleIndentation that yields one DEDENT however many levels it pops
handleIndentationOneDedent(indentStack, indentLevel, line) ==
    LET currentIndent == indentStack[Len(indentStack)]
        keep == CHOOSE k \in 1..Len(indentStack) :
                    /\ k = 1 \/ indentStack[k] <= indentLevel
                    /\ \A j \in (k + 1)..Len(indentStack) : indentStack[j] > indentLevel
        popped == SubSeq(indentStack, 1, keep)
    IN  IF indentLevel > currentIndent
        THEN [tokens |-> <<Token("INDENT", "", line)>>,
              indentStack |-> Append(indentStack, indentLevel)]
        ELSE IF indentLevel < currentIndent
        THEN IF popped[keep] # indentLevel
             THEN [tokens |-> <<Token("ILLEGAL", "indentation error", line)>>,
                   indentStack |-> popped]
             ELSE [tokens |-> <<Token("DEDENT", "", line)>>, indentStack |-> popped]
        ELSE [tokens |-> <<>>, indentStack |-> indentStack]

\* Lexer.handleIndentation at the start of a non-blank line: the tokens it
\* yields and the indent stack afterwards
handleIndentation(indentStack, indentLevel, line) ==
    LET currentIndent == indentStack[Len(indentStack)]
        keep == CHOOSE k \in 1..Len(indentStack) :
                    /\ k = 1 \/ indentStack[k] <= indentLevel
                    /\ \A j \in (k + 1)..Len(indentStack) : indentStack[j] > indentLevel
        popped == SubSeq(indentStack, 1, keep)
    IN  IF indentLevel > currentIndent
        THEN [tokens |-> <<Token("INDENT", "", line)>>,
              indentStack |-> Append(indentStack, indentLevel)]
        ELSE IF indentLevel < currentIndent
        THEN IF popped[keep] # indentLevel
             THEN [tokens |-> <<Token("ILLEGAL", "indentation error", line)>>,
                   indentStack |-> popped]
             ELSE [tokens |-> [i \in 1..(Len(indentStack) - keep) |-> Token("DEDENT", "", line)],
                   indentStack |-> popped]
        ELSE [tokens |-> <<>>, indentStack |-> indentStack]

RECURSIVE AllTokensFrom(_, _, _)
\* the tokens of lines i.. : the line's indentation tokens, its lexemes and
\* its NEWLINE; at the end of input one DEDENT per open block, then EOF
AllTokensFrom(lines, i, indentStack) ==
    IF i > Len(lines)
    THEN [k \in 1..(Len(indentStack) - 1) |-> Token("DEDENT", "", i)] \o <<Token("EOF", "", i)>>
    ELSE LET ind == handleIndentation(indentStack, lines[i].indent, i) IN
         ind.tokens \o [k \in 1..Len(lines[i].words) |-> NextToken(lines[i].words[k], i)]
             \o <<Token("NEWLINE", "\n", i)>>
             \o AllTokensFrom(lines, i + 1, ind.indentStack)

\* Lexer.AllTokens
AllTokens(lines) == AllTokensFrom(lines, 1, <<0>>)

(***************************************************************************)
(* The lexer (pkg/lexer) character by character.  The text is a sequence   *)
(* of one-character strings; NUL stands for the rune 0, which peekChar     *)
(* and readChar also return at the end of the text.  Columns are left out. *)
(***************************************************************************)
NUL == "NUL"

\* lexer.NewLexer
NewLexer(src) ==
    [src |-> src, position |-> 0, line |-> 1, indentStack |-> <<0>>, atLineStart |-> TRUE,
     pendingDedents |-> 0]

\* Lexer.peekChar
peekChar(l) == IF l.position >= Len(l.src) THEN NUL ELSE l.src[l.position + 1]

\* Lexer.readChar repeated up to position k: the lexer afterwards
readChars(l, k) ==
    LET newlines == {j \in (l.position + 1)..k : l.src[j] = "\n"} IN
    [l EXCEPT !.position = k,
              !.line = @ + Cardinality(newlines),
              !.atLineStart = @ \/ newlines # {}]

\* Lexer.readChar: the lexer afterwards (the rune read is peekChar before)
readChar(l) == IF l.position >= Len(l.src) THEN l ELSE readChars(l, l.position + 1)

\* the position a loop of readChar stops at when it reads on while the
\* characters are in the set chars
Span(src, from, chars) ==
    CHOOSE k \in from..Len(src) :
        /\ \A j \in (from + 1)..k : src[j] \in chars
        /\ k = Len(src) \/ src[k + 1] \notin chars

\* Lexer.skipWhitespace
skipWhitespace(l) == readChars(l, Span(l.src, l.position, {" ", "\t", "\r"}))

\* Lexer.skipComment: up to the newline, the rune 0 or the end
skipComment(l) ==
    readChars(l, CHOOSE k \in l.position..Len(l.src) :
                    /\ \A j \in (l.position + 1)..k : l.src[j] \notin {NUL, "\n"}
                    /\ k = Len(l.src) \/ l.src[k + 1] \in {NUL, "\n"})

\* unicode.IsLetter and unicode.IsDigit on the characters of the texts
Letters ==
    {"a", "b", "c", "d", "e", "f", "g", "h", "i", "j", "k", "l", "m", "n", "o", "p", "q", "r",
     "s", "t", "u", "v", "w", "x", "y", "z", "A", "B", "C", "D", "E", "F", "G", "H", "I", "J",
     "K", "L", "M", "N", "O", "P", "Q", "R", "S", "T", "U", "V", "W", "X", "Y", "Z"}
DigitChars == {Digits[i] : i \in DOMAIN Digits}

\* Lexer.readString: the lexer afterwards and the string read
readString(l, quote) ==
    LET RECURSIVE readStringFrom(_, _)
        \* the loop of Lexer.readString from position i: where it stops and the
        \* characters it has collected
        readStringFrom(i, chars) ==
            LET ch == IF i >= Len(l.src) THEN NUL ELSE l.src[i + 1]
                next == IF i + 1 >= Len(l.src) THEN NUL ELSE l.src[i + 2]
            IN  IF ch = NUL \/ ch = quote THEN [position |-> i, lexeme |-> chars]
                ELSE IF ch = "\\"
                THEN readStringFrom(IF i + 2 > Len(l.src) THEN Len(l.src) ELSE i + 2,
                                    Append(chars, CASE next = "n" -> "\n"
                                                    [] next = "t" -> "\t"
                                                    [] next = "r" -> "\r"
                                                    [] OTHER -> next))
                ELSE readStringFrom(i + 1, Append(chars, ch))
        str == readStringFrom(l.position, <<>>)
        end == readChars(l, str.position)
    IN  [l |-> IF peekChar(end) = quote THEN readChar(end) ELSE end, lexeme |-> str.lexeme]

\* Lexer.readNumber: digits with at most one decimal point
readNumber(l) ==
    LET Number(k) ==
            /\ \A j \in (l.position + 1)..k : l.src[j] \in DigitChars \cup {"."}
            /\ Cardinality({j \in (l.position + 1)..k : l.src[j] = "."}) <= 1
        k == CHOOSE n \in l.position..Len(l.src) : Number(n) /\ (n = Len(l.src) \/ ~Number(n + 1))
        lexeme == SubSeq(l.src, l.position + 1, k)
    IN  [l |-> readChars(l, k), lexeme |-> lexeme,
         type |-> IF \E j \in DOMAIN lexeme : lexeme[j] = "." THEN "FLOAT" ELSE "INT"]

\* Lexer.readIdentifier
readIdentifier(l) ==
    LET k == Span(l.src, l.position, Letters \cup DigitChars \cup {"_"}) IN
    [l |-> readChars(l, k), lexeme |-> SubSeq(l.src, l.position + 1, k)]

\* lexer.LookupIdent on the characters of an identifier
LookupIdentChars(chars) ==
    LET \* the keywords table, spelled in characters
        keywords ==
            <<<<<<"i", "f">>, "if">>,
              <<<<"e", "l", "i", "f">>, "elif">>,
              <<<<"e", "l", "s", "e">>, "else">>,
              <<<<"w", "h", "i", "l", "e">>, "while">>,
              <<<<"f", "o", "r">>, "for">>,
              <<<<"i", "n">>, "in">>,
              <<<<"d", "e", "f">>, "def">>,
              <<<<"r", "e", "t", "u", "r", "n">>, "return">>,
              <<<<"p", "r", "i", "n", "t">>, "print">>,
              <<<<"T", "r", "u", "e">>, "True">>,
              <<<<"F", "a", "l", "s", "e">>, "False">>,
              <<<<"N", "o", "n", "e">>, "None">>,
              <<<<"a", "n", "d">>, "and">>,
              <<<<"o", "r">>, "or">>,
              <<<<"n", "o", "t">>, "not">>,
              <<<<"r", "a", "n", "g", "e">>, "range">>,
              <<<<"p", "a", "s", "s">>, "pass">>>>
    IN
    IF \E i \in DOMAIN keywords : keywords[i][1] = chars
    THEN LookupIdent(keywords[CHOOSE i \in DOMAIN keywords : keywords[i][1] = chars][2])
    ELSE "IDENT"

\* a nil *Token
NoToken == [type |-> "nil"]

\* handleIndentation counting a tab as one column
LexerHandleIndentationTabAsOne(l) ==
    IF l.pendingDedents > 0
    THEN [l |-> [l EXCEPT !.pendingDedents = @ - 1], token |-> Token("DEDENT", "", l.line)]
    ELSE IF ~l.atLineStart THEN [l |-> l, token |-> NoToken]
    ELSE LET \* the loop over the leading spaces and tabs: a space counts 1, a tab 8
             k == Span(l.src, l.position, {" ", "\t"})
             m == [l |-> readChars([l EXCEPT !.atLineStart = FALSE], k),
                   indentLevel |->
                       Cardinality({j \in (l.position + 1)..k : l.src[j] = " "})
                           + 1 * Cardinality({j \in (l.position + 1)..k : l.src[j] = "\t"})]
             ind == handleIndentation(l.indentStack, m.indentLevel, l.line)
         IN  IF peekChar(m.l) \in {"\n", "#", NUL} THEN [l |-> m.l, token |-> NoToken]
             ELSE IF ind.tokens = <<>> THEN [l |-> m.l, token |-> NoToken]
             ELSE [l |-> [m.l EXCEPT !.indentStack = ind.indentStack,
                                     !.pendingDedents =
                                         IF ind.tokens[1].type = "DEDENT"
                                         THEN Len(ind.tokens) - 1 ELSE @],
                   token |-> ind.tokens[1]]

\* Lexer.handleIndentation: the lexer afterwards and the token, or NoToken
LexerHandleIndentation(l) ==
    IF l.pendingDedents > 0
    THEN [l |-> [l EXCEPT !.pendingDedents = @ - 1], token |-> Token("DEDENT", "", l.line)]
    ELSE IF ~l.atLineStart THEN [l |-> l, token |-> NoToken]
    ELSE LET \* the loop over the leading spaces and tabs: a space counts 1, a tab 8
             k == Span(l.src, l.position, {" ", "\t"})
             m == [l |-> readChars([l EXCEPT !.atLineStart = FALSE], k),
                   indentLevel |->
                       Cardinality({j \in (l.position + 1)..k : l.src[j] = " "})
                           + 8 * Cardinality({j \in (l.position + 1)..k : l.src[j] = "\t"})]
             ind == handleIndentation(l.indentStack, m.indentLevel, l.line)
         IN  IF peekChar(m.l) \in {"\n", "#", NUL} THEN [l |-> m.l, token |-> NoToken]
             ELSE IF ind.tokens = <<>> THEN [l |-> m.l, token |-> NoToken]
             ELSE [l |-> [m.l EXCEPT !.indentStack = ind.indentStack,
                                     !.pendingDedents =
                                         IF ind.tokens[1].type = "DEDENT"
                                         THEN Len(ind.tokens) - 1 ELSE @],
                   token |-> ind.tokens[1]]

\* Lexer.NextToken, case 0: a DEDENT while a block is open, then EOF
endOfInputSkipsDedents(l, line) == [l |-> l, token |-> Token("EOF", "", line)]

endOfInput(l, line) ==
    IF Len(l.indentStack) > 1
    THEN [l |-> [l EXCEPT !.indentStack = SubSeq(@, 1, Len(@) - 1)],
          token |-> Token("DEDENT", "", line)]
    ELSE [l |-> l, token |-> Token("EOF", "", line)]

RECURSIVE LexerNextToken(_)
\* Lexer.NextToken: the lexer afterwards and the token
LexerNextToken(l) ==
    LET h == LexerHandleIndentation(l)
        w == skipWhitespace(h.l)
        line == w.line
        ch == peekChar(w)
        r == readChar(w)
        \* the characters that are an operator or delimiter, alone or before `=`
        Punctuation ==
            {"=", "<", ">", "+", "-", "*", "/", "%", ",", ":", ";", "(", ")", "[", "]", "{", "}"}
        WithEquals ==
            CASE ch = "=" -> "==" [] ch = "!" -> "!=" [] ch = "<" -> "<=" [] ch = ">" -> ">="
              [] ch = "+" -> "+=" [] OTHER -> "-="
    IN  IF h.token # NoToken THEN h
        ELSE CASE ch = NUL -> endOfInput(r, line)
               [] ch = "\n" -> [l |-> r, token |-> Token("NEWLINE", "\n", line)]
               [] ch = "#" -> LexerNextToken(skipComment(r))
               [] ch \in {"=", "!", "<", ">", "+", "-"} /\ peekChar(r) = "=" ->
                    [l |-> readChar(r), token |-> NextToken([kind |-> "sym", text |-> WithEquals], line)]
               [] ch \in Punctuation -> [l |-> r, token |-> NextToken([kind |-> "sym", text |-> ch], line)]
               [] ch \in {"\"", "'"} ->
                    LET str == readString(r, ch) IN
                    [l |-> str.l, token |-> Token("STRING", str.lexeme, line)]
               [] ch \in DigitChars ->
                    LET num == readNumber(w) IN
                    [l |-> num.l, token |-> Token(num.type, num.lexeme, line)]
               [] ch \in Letters \cup {"_"} ->
                    LET id == readIdentifier(w) IN
                    [l |-> id.l, token |-> Token(LookupIdentChars(id.lexeme), id.lexeme, line)]
               [] OTHER -> [l |-> r, token |-> Token("ILLEGAL", ch, line)]

(***************************************************************************)
(* Code objects as gob streams (encoding/gob as the package documents it): *)
(* a struct is sent as (field, value) pairs, a field that has the zero     *)
(* value of its type is left out, pointers are flattened, an interface     *)
(* value is sent as the registered name of its concrete type followed by   *)
(* the value.  Decoding starts from the zero value of the struct.          *)
(***************************************************************************)
Field(name, value) == [field |-> name, value |-> value]

\* the names init() would register if it registered the runtime package's
\* function type for the compiler's
RegisteredRuntimeFunction ==
    {"*runtime.PyInt", "*runtime.PyFloat", "*runtime.PyString", "*runtime.PyBool",
     "*runtime.PyNone", "*runtime.PyFunction", "*runtime.PyList", "*runtime.PyDict",
     "*compiler.PyBuiltin"}

\* init: the concrete types registered with gob, by the names gob gives them
Registered ==
    {"*runtime.PyInt", "*runtime.PyFloat", "*runtime.PyString", "*runtime.PyBool",
     "*runtime.PyNone", "*compiler.PyFunction", "*runtime.PyList", "*runtime.PyDict",
     "*compiler.PyBuiltin"}

\* the Go type of a value, as gob names it
GoTypeName(v) ==
    CASE v.t = "int" -> "*runtime.PyInt"
      [] v.t = "float" -> "*runtime.PyFloat"
      [] v.t = "str" -> "*runtime.PyString"
      [] v.t = "bool" -> "*runtime.PyBool"
      [] v.t = "NoneType" -> "*runtime.PyNone"
      [] v.t = "function" -> "*compiler.PyFunction"
      [] v.t = "list" -> "*runtime.PyList"
      [] v.t = "dict" -> "*runtime.PyDict"
      [] OTHER -> "*compiler.PyBuiltin"

RECURSIVE ConstantsOf(_)
\* the constants of a code object and of the functions among them
ConstantsOf(c) ==
    {c.consts[i] : i \in DOMAIN c.consts}
    \cup UNION {ConstantsOf(c.consts[i].code) :
                  i \in {j \in DOMAIN c.consts : c.consts[j].t = "function"}}

\* CodeObject.Serialize: gob.NewEncoder(w).Encode(co)
Serialize(co) ==
    LET Opt(name, value, zero) == IF value = zero THEN <<>> ELSE <<Field(name, value)>>
        RECURSIVE Encode(_, _)
        Encode(kind, x) ==
            CASE kind = "CodeObject" ->
                    [type |-> "CodeObject",
                     fields |->
                        Opt("Instructions",
                            [i \in DOMAIN x.instructions |-> Encode("Instruction", x.instructions[i])],
                            <<>>)
                        \o Opt("Consts",
                               [i \in DOMAIN x.consts |-> Encode("Object", x.consts[i])], <<>>)
                        \o Opt("Names", x.names, <<>>)
                        \o Opt("Varnames", x.varnames, <<>>)
                        \o Opt("Argcount", x.argcount, 0)
                        \o Opt("Name", x.name, "")]
              [] kind = "Instruction" ->
                    [type |-> "Instruction",
                     fields |-> Opt("Op", x.op, "LOAD_CONST") \o Opt("Arg", x.arg, 0)]
              [] OTHER ->
                    [type |-> GoTypeName(x),
                     fields |->
                        CASE x.t = "int" -> Opt("Value", x.v, 0)
                          [] x.t = "float" -> IF x.n = 0 THEN <<>>
                                              ELSE <<Field("Value", [n |-> x.n, d |-> x.d])>>
                          [] x.t = "str" -> Opt("Value", x.v, <<>>)
                          [] x.t = "bool" -> Opt("Value", x.v, FALSE)
                          [] x.t = "function" ->
                                <<Field("Code", Encode("CodeObject", x.code))>>
                                \o Opt("Name", x.name, "")
                          [] OTHER -> <<>>]
        unregistered == {v \in ConstantsOf(co) : GoTypeName(v) \notin Registered}
    IN  IF unregistered # {}
        THEN [ok |-> FALSE, bytes |-> NoFile,
              msg |-> "gob: type not registered for interface: "
                      \o GoTypeName(CHOOSE v \in unregistered : TRUE)]
        ELSE [ok |-> TRUE, bytes |-> Encode("CodeObject", co), msg |-> ""]

\* compiler.DeserializeCodeObject: gob.NewDecoder(r).Decode(&co)
DeserializeCodeObject(bytes) ==
    LET Has(e, name) == \E i \in DOMAIN e.fields : e.fields[i].field = name
        Get(e, name) == e.fields[CHOOSE i \in DOMAIN e.fields : e.fields[i].field = name].value
        RECURSIVE Decode(_)
        Decode(e) ==
            CASE e.type = "CodeObject" ->
                    [instructions |->
                        IF Has(e, "Instructions")
                        THEN [i \in DOMAIN Get(e, "Instructions") |->
                                 Decode(Get(e, "Instructions")[i])]
                        ELSE <<>>,
                     consts |->
                        IF Has(e, "Consts")
                        THEN [i \in DOMAIN Get(e, "Consts") |-> Decode(Get(e, "Consts")[i])]
                        ELSE <<>>,
                     names |-> IF Has(e, "Names") THEN Get(e, "Names") ELSE <<>>,
                     varnames |-> IF Has(e, "Varnames") THEN Get(e, "Varnames") ELSE <<>>,
                     argcount |-> IF Has(e, "Argcount") THEN Get(e, "Argcount") ELSE 0,
                     name |-> IF Has(e, "Name") THEN Get(e, "Name") ELSE ""]
              [] e.type = "Instruction" ->
                    Instruction(IF Has(e, "Op") THEN Get(e, "Op") ELSE "LOAD_CONST",
                                IF Has(e, "Arg") THEN Get(e, "Arg") ELSE 0)
              [] e.type = "*runtime.PyInt" ->
                    PyInt(IF Has(e, "Value") THEN Get(e, "Value") ELSE 0)
              [] e.type = "*runtime.PyFloat" ->
                    IF Has(e, "Value") THEN PyFloat(Get(e, "Value").n, Get(e, "Value").d)
                    ELSE PyFloat(0, 1)
              [] e.type = "*runtime.PyString" ->
                    PyString(IF Has(e, "Value") THEN Get(e, "Value") ELSE <<>>)
              [] e.type = "*runtime.PyBool" ->
                    PyBool(IF Has(e, "Value") THEN Get(e, "Value") ELSE FALSE)
              [] e.type = "*compiler.PyFunction" ->
                    PyFunction(Decode(Get(e, "Code")),
                               IF Has(e, "Name") THEN Get(e, "Name") ELSE "")
              [] OTHER -> PyNone
    IN  IF bytes.type # "CodeObject"
        THEN [ok |-> FALSE, code |-> CodeObject(NewCompiler(0), 0, ""), msg |-> "EOF"]
        ELSE [ok |-> TRUE, code |-> Decode(bytes), msg |-> ""]

(***************************************************************************)
(* The pipeline                                                            *)
(***************************************************************************)
NoCode == CodeObject(NewCompiler(0), 0, "")

\* the VM's state as one record, and back
VM ==
    [frames |-> frames, globals |-> globals, builtins |-> builtins, heap |-> heap, out |-> out,
     outcome |-> outcome, result |-> result, err |-> err]

SetVM(S) ==
    /\ frames' = S.frames
    /\ globals' = S.globals
    /\ builtins' = S.builtins
    /\ heap' = S.heap
    /\ out' = S.out
    /\ outcome' = S.outcome
    /\ result' = S.result
    /\ err' = S.err

\* lexer.NewLexer(source).AllTokens()
Lex ==
    /\ pc = "lex"
    /\ tokens' = AllTokens(source)
    /\ pc' = "parse"
    /\ UNCHANGED <<source, module, code, frames, globals, builtins, firstRun, bytecode, heap, out, outcome, result, err, lexer>>

\* parser.NewParser(tokens).Parse()
ParseModule ==
    /\ pc = "parse"
    /\ LET r == Parse(tokens) IN
       IF r.err # NoErr
       THEN /\ outcome' = "parse_error"
            /\ err' = r.err
            /\ UNCHANGED <<module, pc>>
       ELSE /\ module' = r.node
            /\ pc' = "compile"
            /\ UNCHANGED <<outcome, err>>
    /\ outcome = ""
    /\ UNCHANGED <<source, tokens, code, frames, globals, builtins, firstRun, bytecode, heap, out, result, lexer>>

\* compiler.Compile(module)
CompileModule ==
    /\ pc = "compile"
    /\ outcome = ""
    /\ LET c == Compile(module) IN
       IF c.err # NoErr
       THEN /\ outcome' = "compile_error"
            /\ err' = c.err
            /\ UNCHANGED <<code, pc>>
       ELSE /\ code' = CodeObject(c, 0, "<module>")
            /\ pc' = "run"
            /\ UNCHANGED <<outcome, err>>
    /\ UNCHANGED <<source, tokens, module, frames, globals, builtins, firstRun, bytecode, heap, out, result, lexer>>

\* VM.Run(code) up to its loop: the module frame is pushed on the frames the
\* VM holds, none in a VM that vm.NewVM() has just made
RunEnter ==
    /\ pc = "run"
    /\ frames' = Append(frames, NewFrame(code))
    /\ pc' = "loop"
    /\ UNCHANGED <<source, tokens, module, code, globals, builtins, firstRun, bytecode, heap, out, outcome, result, err,
                    lexer>>

\* one iteration of the loop of Run; nothing runs once Run has returned or
\* the process has died
RunStep ==
    /\ pc = "loop"
    /\ outcome = ""
    /\ SetVM(RunLoop(VM))
    /\ UNCHANGED <<source, tokens, module, code, pc, lexer, firstRun, bytecode>>

Next == Lex \/ ParseModule \/ CompileModule \/ RunEnter \/ RunStep

\* the same code object run once more by the same VM value, as the
\* read-eval-print loop runs each line: the globals are kept
RunAgainInSameVM ==
    /\ pc = "loop"
    /\ outcome # ""
    /\ ~firstRun.done
    /\ firstRun' = [done |-> TRUE, outcome |-> outcome, result |-> result, err |-> err,
                 out |-> out, heap |-> heap]
    /\ pc' = "run"
    /\ frames' = <<>>
    /\ heap' = <<>>
    /\ out' = <<>>
    /\ outcome' = ""
    /\ result' = GoNil
    /\ err' = NoErr
    /\ UNCHANGED <<source, tokens, module, code, lexer, globals, builtins, bytecode>>

\* py2vm run a second time on the same code object: once Run has returned
\* (or the process has died) what it gave is kept, and vm.NewVM().Run(code)
\* starts again with a new VM and an empty stdout
RunAgain ==
    /\ pc = "loop"
    /\ outcome # ""
    /\ ~firstRun.done
    /\ firstRun' = [done |-> TRUE, outcome |-> outcome, result |-> result, err |-> err,
                 out |-> out, heap |-> heap]
    /\ pc' = "run"
    /\ frames' = <<>>
    /\ globals' = <<>>
    /\ builtins' = NewVM
    /\ heap' = <<>>
    /\ out' = <<>>
    /\ outcome' = ""
    /\ result' = GoNil
    /\ err' = NoErr
    /\ UNCHANGED <<source, tokens, module, code, lexer, bytecode>>

NextTwoRuns == Next \/ RunAgain

\* py2c main after compiler.Compile: the code object is serialized into the
\* output file, or the error is reported and the process exits
Py2cWrite ==
    /\ pc = "run"
    /\ bytecode = NoFile
    /\ LET w == Serialize(code) IN
       IF w.ok
       THEN /\ bytecode' = w.bytes
            /\ pc' = "written"
            /\ UNCHANGED <<outcome, err>>
       ELSE /\ pc' = "exit"
            /\ outcome' = "write_error"
            /\ err' = [msg |-> w.msg, line |-> 0]
            /\ UNCHANGED bytecode
    /\ UNCHANGED <<source, tokens, module, code, frames, globals, builtins, heap, out, result,
                    lexer, firstRun>>

\* py2vm main up to vm.NewVM: the file is deserialized into the code object
\* that is then run
Py2vmRead ==
    /\ pc = "written"
    /\ LET r == DeserializeCodeObject(bytecode) IN
       IF r.ok
       THEN /\ code' = r.code
            /\ pc' = "run"
            /\ UNCHANGED <<outcome, err>>
       ELSE /\ pc' = "exit"
            /\ outcome' = "read_error"
            /\ err' = [msg |-> r.msg, line |-> 0]
            /\ UNCHANGED code
    /\ UNCHANGED <<source, tokens, module, frames, globals, builtins, heap, out, result, lexer,
                    firstRun, bytecode>>

NextBytecode == Next \/ Py2cWrite \/ Py2vmRead

\* the state before the pipeline starts on program text src
InitWith(src) ==
    /\ source = src
    /\ tokens = <<>>
    /\ pc = "lex"
    /\ module = <<>>
    /\ code = NoCode
    /\ frames = <<>>
    /\ globals = <<>>
    /\ builtins = NewVM
    /\ firstRun = NoRun
    /\ bytecode = NoFile
    /\ heap = <<>>
    /\ out = <<>>
    /\ outcome = ""
    /\ result = GoNil
    /\ err = NoErr
    /\ lexer = NewLexer(<<>>)

(***************************************************************************)
(* Program texts.  W is an identifier, keyword, operator or delimiter, N   *)
(* an integer literal, Q a string literal, L a line at an indentation.     *)
(***************************************************************************)
W(x) == [kind |-> "sym", text |-> x]
N(n) == [kind |-> "num", text |-> Itoa(n)]
Q(chars) == [kind |-> "str", text |-> chars]
F(chars) == [kind |-> "float", text |-> chars]
L(indent, words) == [indent |-> indent, words |-> words]

\* pkg e2e test if_else: an if with an else, then a following statement
IfElseSource(x) ==
    << L(0, <<W("x"), W("="), x>>),
       L(0, <<W("if"), W("x"), W(">"), N(5), W(":")>>),
       L(4, <<W("print"), N(1)>>),
       L(0, <<W("else"), W(":")>>),
       L(4, <<W("print"), N(2)>>),
       L(0, <<W("print"), N(3)>>) >>

\* pkg e2e test elif: an elif chain, then a following statement
ElifSource(score) ==
    << L(0, <<W("score"), W("="), score>>),
       L(0, <<W("if"), W("score"), W(">="), N(90), W(":")>>),
       L(4, <<W("print"), N(1)>>),
       L(0, <<W("elif"), W("score"), W(">="), N(80), W(":")>>),
       L(4, <<W("print"), N(2)>>),
       L(0, <<W("elif"), W("score"), W(">="), N(70), W(":")>>),
       L(4, <<W("print"), N(3)>>),
       L(0, <<W("else"), W(":")>>),
       L(4, <<W("print"), N(4)>>),
       L(0, <<W("print"), N(5)>>) >>

\* an if with an else inside a function body
IfInFunctionSource(x) ==
    << L(0, <<W("def"), W("f"), W("("), W("x"), W(")"), W(":")>>),
       L(4, <<W("if"), W("x"), W(">"), N(5), W(":")>>),
       L(8, <<W("y"), W("="), N(1)>>),
       L(4, <<W("else"), W(":")>>),
       L(8, <<W("y"), W("="), N(2)>>),
       L(4, <<W("return"), W("y")>>),
       L(0, <<W("print"), W("f"), W("("), x, W(")")>>),
       L(0, <<W("print"), N(3)>>) >>

\* an if without an else
IfOnlySource(x) ==
    << L(0, <<W("x"), W("="), x>>),
       L(0, <<W("if"), W("x"), W(">"), N(5), W(":")>>),
       L(4, <<W("print"), N(1)>>),
       L(0, <<W("print"), N(3)>>) >>

\* pkg e2e test list_operations: assignment to a list element
ListStoreSource ==
    << L(0, <<W("items"), W("="), W("["), N(1), W(","), N(2), W(","), N(3), W("]")>>),
       L(0, <<W("items"), W("["), N(1), W("]"), W("="), N(10)>>),
       L(0, <<W("print"), W("items"), W("["), N(1), W("]")>>) >>

\* assignment to a dict entry
DictStoreSource ==
    << L(0, <<W("d"), W("="), W("{"), Q(<<"a">>), W(":"), N(1), W("}")>>),
       L(0, <<W("d"), W("["), Q(<<"b">>), W("]"), W("="), N(2)>>),
       L(0, <<W("print"), W("d"), W("["), Q(<<"b">>), W("]")>>) >>

\* subscripts that are only read, and the built-ins
SubscriptReadSource ==
    << L(0, <<W("items"), W("="), W("["), N(1), W(","), N(2), W(","), N(3), W("]")>>),
       L(0, <<W("d"), W("="), W("{"), Q(<<"a">>), W(":"), W("items"), W("}")>>),
       L(0,
         <<W("print"), W("items"), W("["), N(1), W("]"), W(","), W("d"), W("["), Q(<<"a">>), W("]"), W("["), N(0), W("]"), W(","), Q(<<"a", "b", "c">>), W("["), N(2), W("]")>>),
       L(0, <<W("print"), W("d")>>),
       L(0,
         <<W("print"), W("len"), W("("), W("items"), W(")"), W(","), W("len"), W("("), W("d"), W(")"), W(","), W("len"), W("("), Q(<<"a", "b">>), W(")"), W(","), W("type"), W("("), W("d"), W(")"), W(","), W("str"), W("("), N(7), W(")"), W(","), W("str"), W("("), Q(<<"s">>), W(")")>>),
       L(0, <<W("print"), W("["), N(1), W(","), Q(<<"a">>), W("]"), W(","), Q(<<>>)>>) >>

\* pkg e2e test hello_world
PrintHelloSource ==
    << L(0, <<W("print"), Q(<<"h", "e", "l", "l", "o">>)>>) >>

\* pkg e2e test variables
PrintVariablesSource ==
    << L(0, <<W("x"), W("="), N(42)>>),
       L(0, <<W("print"), Q(<<"x", " ", "=">>), W(","), W("x")>>) >>

\* a string and an integer in one print
PrintPairSource ==
    << L(0, <<W("print"), Q(<<"x", " ", "=">>), W(","), N(42)>>) >>

\* print with several values, with none, and with an empty string
PrintManySource ==
    << L(0, <<W("print"), N(1), W(","), N(2), W(","), N(3)>>),
       L(0, <<W("print"), W("True"), W(","), W("None"), W(","), W("False")>>),
       L(0, <<W("print")>>),
       L(0, <<W("print"), Q(<<"a">>), W(","), Q(<<"b", " ", "c">>), W(","), Q(<<>>)>>) >>

\* a for loop over range(n), then a following statement
ForRangeSource(n) ==
    << L(0, <<W("for"), W("x"), W("in"), W("range"), W("("), n, W(")"), W(":")>>),
       L(4, <<W("print"), W("x")>>),
       L(0, <<W("print"), N(99)>>) >>

\* for loops over literal lists of 3, 0 and 1 elements
ForListSource ==
    << L(0,
         <<W("for"), W("x"), W("in"), W("["), N(10), W(","), N(20), W(","), N(30), W("]"), W(":")>>),
       L(4, <<W("print"), W("x")>>),
       L(0, <<W("print"), N(99)>>),
       L(0, <<W("for"), W("y"), W("in"), W("["), W("]"), W(":")>>),
       L(4, <<W("print"), W("y")>>),
       L(0, <<W("print"), N(98)>>),
       L(0, <<W("for"), W("z"), W("in"), W("["), N(7), W("]"), W(":")>>),
       L(4, <<W("print"), W("z")>>),
       L(0, <<W("print"), N(97)>>) >>

\* for loops over the characters of a string, and of the empty string
ForStringSource ==
    << L(0, <<W("acc"), W("="), Q(<<>>)>>),
       L(0, <<W("for"), W("c"), W("in"), Q(<<"a", "b", "c">>), W(":")>>),
       L(4, <<W("acc"), W("="), W("acc"), W("+"), W("c")>>),
       L(0, <<W("print"), N(99)>>),
       L(0, <<W("for"), W("e"), W("in"), Q(<<>>), W(":")>>),
       L(4, <<W("acc"), W("="), W("acc"), W("+"), W("e")>>),
       L(0, <<W("print"), N(98)>>) >>

\* pkg vm test nested for loops: range(n) around range(m)
ForNestedSource(n, m) ==
    << L(0, <<W("for"), W("i"), W("in"), W("range"), W("("), n, W(")"), W(":")>>),
       L(4, <<W("for"), W("j"), W("in"), W("range"), W("("), m, W(")"), W(":")>>),
       L(8, <<W("print"), W("i"), W(","), W("j")>>),
       L(4, <<W("print"), W("i")>>),
       L(0, <<W("print"), N(99)>>) >>

\* a for loop over a function's locals
ForInFunctionSource(n) ==
    << L(0, <<W("def"), W("total"), W("("), W("n"), W(")"), W(":")>>),
       L(4, <<W("t"), W("="), N(0)>>),
       L(4,
         <<W("for"), W("i"), W("in"), W("range"), W("("), N(1), W(","), W("n"), W("+"), N(1), W(")"), W(":")>>),
       L(8, <<W("t"), W("="), W("t"), W("+"), W("i")>>),
       L(4, <<W("return"), W("t")>>),
       L(0, <<W("print"), W("total"), W("("), n, W(")")>>) >>

\* a while loop counting down from n
WhileSource(n) ==
    << L(0, <<W("x"), W("="), n>>),
       L(0, <<W("while"), W("x"), W(">"), N(0), W(":")>>),
       L(4, <<W("print"), W("x")>>),
       L(4, <<W("x"), W("-="), N(1)>>),
       L(0, <<W("print"), N(0)>>) >>

\* A and B, A or B as the module's trailing expression
BoolOpSource(a, op, b) ==
    << L(0, <<a, op, b>>) >>

\* three operands, with either operator at either place
BoolOpChainSource(a, op1, b, op2, c) ==
    << L(0, <<a, op1, b, op2, c>>) >>

\* A and B, A or B assigned and printed
BoolOpStoreSource(a, op, b) ==
    << L(0, <<W("r"), W("="), a, op, b>>),
       L(0, <<W("print"), W("r")>>) >>

\* a == b, a != b as the module's trailing expression
EqualitySource(a, op, b) ==
    << L(0, <<a, op, b>>) >>

\* arithmetic that mixes an integer and a float, printed
FloatArithSource ==
    << L(0, <<W("x"), W("="), F(<<"2", ".", "5">>), W("+"), N(1)>>),
       L(0, <<W("print"), W("x"), W("*"), N(2), W(","), W("x"), W("/"), N(2),
              W(","), W("-"), W("x"), W(","), W("x"), W(">"), N(3), W(","),
              W("type"), W("("), W("x"), W(")")>>),
       L(0, <<W("x"), W("-"), F(<<"0", ".", "5">>)>>) >>

\* a dict literal of three pairs, printed and returned
DictLiteralSource(k1, k2, k3) ==
    << L(0, <<W("d"), W("="), W("{"), k1, W(":"), N(10), W(","), k2, W(":"), N(20), W(","),
              k3, W(":"), N(30), W("}")>>),
       L(0, <<W("print"), W("d")>>),
       L(0, <<W("d")>>) >>

\* tests for_with_list_operations: a list grown by `numbers + [i * 2]`
ListAppendSource(n) ==
    << L(0, <<W("numbers"), W("="), W("["), W("]")>>),
       L(0, <<W("for"), W("i"), W("in"), W("range"), W("("), n, W(")"), W(":")>>),
       L(4, <<W("numbers"), W("="), W("numbers"), W("+"), W("["), W("i"), W("*"), N(2),
              W("]")>>),
       L(0, <<W("numbers")>>) >>

\* a bracketed form with a comma before its closing bracket
TrailingCommaSource(open, items, close) ==
    << L(0, <<W("r"), W("=")>> \o open \o items \o <<W(",")>> \o close),
       L(0, <<W("r")>>) >>

\* an expression in parentheses
Group(words) == <<W("(")>> \o words \o <<W(")")>>

\* an integer as it is written: a negative one is a minus sign and a literal
Signed(v) == IF v < 0 THEN <<W("-"), N(-v)>> ELSE <<N(v)>>

\* `a / b` or `a % b` as the trailing expression
DivModSource(a, op, b) == << L(0, Signed(a) \o <<op>> \o Signed(b)) >>

\* `(a / b) * b + a % b == a` as the trailing expression
DivModIdentitySource(a, b) ==
    << L(0, Group(Signed(a) \o <<W("/")>> \o Signed(b)) \o <<W("*")>> \o Signed(b)
              \o <<W("+")>> \o Signed(a) \o <<W("%")>> \o Signed(b)
              \o <<W("==")>> \o Signed(a)) >>

\* pkg e2e test operator_precedence: an expression printed as written, then
\* the same expression with its loosest operator's operands in parentheses
PrecedenceSource(flat, grouped) ==
    << L(0, <<W("print")>> \o flat),
       L(0, grouped) >>

\* a comparison chain whose operands print themselves as they are evaluated
CompareChainSource(a, op1, b, op2, c) ==
    << L(0, <<W("def"), W("v"), W("("), W("x"), W(")"), W(":")>>),
       L(4, <<W("print"), W("x")>>),
       L(4, <<W("return"), W("x")>>),
       L(0, <<W("v"), W("("), a, W(")"), op1, W("v"), W("("), b, W(")"), op2,
              W("v"), W("("), c, W(")")>>) >>

\* pkg vm test variables: a trailing expression statement
TrailingSumSource ==
    << L(0, <<W("x"), W("="), N(42)>>),
       L(0, <<W("y"), W("="), W("x"), W("+"), N(8)>>),
       L(0, <<W("y")>>) >>

\* the empty module
EmptySource == <<>>

\* a module that ends with an assignment
TrailingAssignSource ==
    << L(0, <<N(5)>>),
       L(0, <<W("x"), W("="), N(1)>>) >>

\* a module that ends with a print
TrailingPrintSource ==
    << L(0, <<W("print"), N(7)>>) >>

\* a module that ends with pass
TrailingPassSource ==
    << L(0, <<W("x"), W("="), N(1)>>),
       L(0, <<W("pass")>>) >>

\* a trailing arithmetic expression over a global
TrailingArithSource(n) ==
    << L(0, <<W("x"), W("="), n>>),
       L(0, <<W("x"), W("*"), W("x"), W("-"), N(1), W("+"), N(7)>>) >>

\* a trailing expression with a division and a modulo
TrailingDivSource(n) ==
    << L(0, <<W("x"), W("="), n>>),
       L(0, <<N(7), W("/"), N(2), W("+"), W("x"), W("%"), N(3)>>) >>

\* a trailing string expression
TrailingStringSource ==
    << L(0, <<Q(<<"a", "b", "c">>), W("+"), Q(<<"d">>)>>) >>

\* a trailing comparison under not
TrailingCompareSource(n) ==
    << L(0, <<W("not"), n, W("<"), N(2)>>) >>

\* a trailing unary minus
TrailingNegSource(n) ==
    << L(0, <<W("-"), n>>) >>

\* a trailing call of a user function
TrailingCallSource ==
    << L(0, <<W("def"), W("f"), W("("), W(")"), W(":")>>),
       L(4, <<W("return"), N(7)>>),
       L(0, <<W("f"), W("("), W(")")>>) >>

\* a module that ends with a for loop
TrailingLoopSource ==
    << L(0, <<W("for"), W("i"), W("in"), W("range"), W("("), N(2), W(")"), W(":")>>),
       L(4, <<W("i")>>) >>

\* a module that ends with a function definition
TrailingDefSource ==
    << L(0, <<W("def"), W("f"), W("("), W(")"), W(":")>>),
       L(4, <<W("pass")>>) >>

\* a name error between two prints
NameErrorSource ==
    << L(0, <<W("print"), N(1)>>),
       L(0, <<W("print"), W("undefined_name")>>),
       L(0, <<W("print"), N(2)>>) >>

\* a division by zero before a store and a print
DivZeroSource ==
    << L(0, <<W("x"), W("="), N(1)>>),
       L(0, <<W("y"), W("="), W("x"), W("/"), N(0)>>),
       L(0, <<W("x"), W("="), N(2)>>),
       L(0, <<W("print"), W("x")>>) >>

\* a modulo by zero
ModZeroSource ==
    << L(0, <<W("x"), W("="), N(1), W("%"), N(0)>>),
       L(0, <<W("print"), W("x")>>) >>

\* a type error raised in a callee's frame
ErrorInFunctionSource ==
    << L(0, <<W("def"), W("f"), W("("), W("a"), W(")"), W(":")>>),
       L(4, <<W("print"), W("a")>>),
       L(4, <<W("b"), W("="), W("a"), W("+"), Q(<<"s">>)>>),
       L(4, <<W("print"), W("b")>>),
       L(4, <<W("return"), W("b")>>),
       L(0, <<W("print"), N(1)>>),
       L(0, <<W("z"), W("="), W("f"), W("("), N(2), W(")")>>),
       L(0, <<W("print"), W("z")>>),
       L(0, <<W("z"), W("="), N(5)>>) >>

\* a name error raised two calls deep
ErrorNestedSource ==
    << L(0, <<W("def"), W("g"), W("("), W(")"), W(":")>>),
       L(4, <<W("return"), W("undefined_name")>>),
       L(0, <<W("def"), W("f"), W("("), W(")"), W(":")>>),
       L(4, <<W("x"), W("="), W("g"), W("("), W(")")>>),
       L(4, <<W("print"), N(1)>>),
       L(4, <<W("return"), W("x")>>),
       L(0, <<W("y"), W("="), W("f"), W("("), W(")")>>),
       L(0, <<W("print"), N(2)>>) >>

\* a list index out of range
IndexErrorSource ==
    << L(0, <<W("x"), W("="), W("["), N(1), W(","), N(2), W("]")>>),
       L(0, <<W("print"), W("x"), W("["), N(5), W("]")>>),
       L(0, <<W("print"), N(3)>>) >>

\* a missing dict key
KeyErrorSource ==
    << L(0, <<W("d"), W("="), W("{"), Q(<<"a">>), W(":"), N(1), W("}")>>),
       L(0, <<W("print"), W("d"), W("["), Q(<<"b">>), W("]")>>),
       L(0, <<W("print"), N(1)>>) >>

\* a call of an integer
NotCallableSource ==
    << L(0, <<W("x"), W("="), N(5)>>),
       L(0, <<W("x"), W("("), N(1), W(")")>>),
       L(0, <<W("print"), N(2)>>) >>

\* a call with the wrong number of arguments
ArgCountSource ==
    << L(0, <<W("def"), W("f"), W("("), W("a"), W(")"), W(":")>>),
       L(4, <<W("return"), W("a")>>),
       L(0, <<W("f"), W("("), N(1), W(","), N(2), W(")")>>),
       L(0, <<W("print"), N(3)>>) >>

\* a for loop over an integer
NotIterableSource ==
    << L(0, <<W("for"), W("i"), W("in"), N(5), W(":")>>),
       L(4, <<W("print"), W("i")>>),
       L(0, <<W("print"), N(2)>>) >>

\* pkg tests runtime_error_non_iterable: a for loop over the value of an
\* expression, with a statement after it
GetIterSource(iterable) ==
    << L(0, <<W("for"), W("i"), W("in")>> \o iterable \o <<W(":")>>),
       L(4, <<W("print"), N(7)>>),
       L(0, <<W("print"), N(99)>>) >>

\* a for loop over a list held by a name, which the body reads
GetIterNamedSource(n) ==
    << L(0, <<W("xs"), W("="), W("range"), W("("), n, W(")")>>),
       L(0, <<W("for"), W("i"), W("in"), W("xs"), W(":")>>),
       L(4, <<W("print"), W("len"), W("("), W("xs"), W(")")>>),
       L(0, <<W("xs")>>) >>

\* the first n of the words a, b, c, ... separated by commas
CommaList(words, n) ==
    IF n = 0 THEN <<>>
    ELSE [i \in 1..(2 * n - 1) |-> IF i % 2 = 1 THEN words[(i + 1) \div 2] ELSE W(",")]

\* a call of the value of an expression with n arguments
CallValueSource(callee, n) ==
    << L(0, callee \o <<W("(")>> \o CommaList(<<N(1), N(2), N(3)>>, n) \o <<W(")")>>),
       L(0, <<W("print"), N(2)>>) >>

\* a function of `params` parameters called with n arguments
ArityCallSource(params, n) ==
    << L(0, <<W("def"), W("f"), W("(")>> \o CommaList(<<W("a"), W("b"), W("c")>>, params)
              \o <<W(")"), W(":")>>),
       L(4, <<W("print"), N(1)>>),
       L(4, <<W("return"), N(7)>>),
       L(0, <<W("f"), W("(")>> \o CommaList(<<N(1), N(2), N(3)>>, n) \o <<W(")")>>),
       L(0, <<W("print"), N(3)>>) >>

\* a function that calls its argument, given a value that cannot be called
CallArgumentSource(v) ==
    << L(0, <<W("def"), W("h"), W("("), W("x"), W(")"), W(":")>>),
       L(4, <<W("return"), W("x"), W("("), N(1), W(")")>>),
       L(0, <<W("h"), W("(")>> \o v \o <<W(")")>>) >>

\* a global and a local that take the name of a built-in, and calls of a
\* built-in and of a function
ShadowSource(name) ==
    << L(0, <<W("y"), W("="), name>>),
       L(0, <<W("n"), W("="), W("len"), W("("), Q(<<"a", "b">>), W(")")>>),
       L(0, <<name, W("="), N(5)>>),
       L(0, <<W("def"), W("f"), W("("), W("a"), W(")"), W(":")>>),
       L(4, <<W("str"), W("="), W("a")>>),
       L(4, <<W("return"), W("str")>>),
       L(0, <<W("xs"), W("="), W("["), W("f"), W("("), N(3), W(")"), W(","), name, W("]")>>),
       L(0, <<W("xs")>>) >>

\* a list literal in a function that is called twice, and a name bound to
\* the first list
FreshListSource(n) ==
    << L(0, <<W("def"), W("make"), W("("), W(")"), W(":")>>),
       L(4, <<W("return"), W("["), n, W("]")>>),
       L(0, <<W("a"), W("="), W("make"), W("("), W(")")>>),
       L(0, <<W("b"), W("="), W("make"), W("("), W(")")>>),
       L(0, <<W("c"), W("="), W("a")>>) >>

\* a list or dict literal in a loop of two passes; b is bound to what the
\* first pass built and a and c to what the second built
FreshInLoopSource(literal) ==
    << L(0, <<W("a"), W("="), N(0)>>),
       L(0, <<W("for"), W("i"), W("in"), W("range"), W("("), N(2), W(")"), W(":")>>),
       L(4, <<W("b"), W("="), W("a")>>),
       L(4, <<W("a"), W("=")>> \o literal),
       L(0, <<W("c"), W("="), W("a")>>) >>

\* the statement `a[index] = 7` as a node given to the compiler
StoreSubscriptNode(index) ==
    [k |-> "AssignStmt",
     target |-> [k |-> "Subscript", value |-> [k |-> "Name", id |-> "a"],
                 slice |-> [k |-> "Num", n |-> index]],
     value |-> [k |-> "Num", n |-> 7]]

\* two dict literals of the same pairs written in the two orders, compared
\* and printed
DictOrderSource(k1, k2) ==
    << L(0, <<W("a"), W("="), W("{"), k1, W(":"), N(1), W(","), k2, W(":"), N(2), W("}")>>),
       L(0, <<W("b"), W("="), W("{"), k2, W(":"), N(2), W(","), k1, W(":"), N(1), W("}")>>),
       L(0, <<W("print"), W("a"), W("=="), W("b")>>),
       L(0, <<W("print"), W("a")>>),
       L(0, <<W("print"), W("b")>>) >>

\* a for loop, on the second line, whose target is the given atom
ForTargetSource(target) ==
    << L(0, <<W("x"), W("="), N(1)>>),
       L(0, <<W("for"), target, W("in"), W("["), N(1), W("]"), W(":")>>),
       L(4, <<W("print"), W("x")>>) >>

ForTargetSources ==
    << ForTargetSource(W("i")), ForTargetSource(N(3)), ForTargetSource(Q(<<"a">>)),
       ForTargetSource(W("True")), ForTargetSource(W("in")) >>

\* a function whose body ends without a return, called in an expression,
\* in a print and as the module's trailing expression
ImplicitReturnSource(body) ==
    << L(0, <<W("def"), W("f"), W("("), W("a"), W(")"), W(":")>>),
       L(4, body),
       L(0, <<W("def"), W("g"), W("("), W("a"), W(")"), W(":")>>),
       L(4, <<W("r"), W("="), W("f"), W("("), W("a"), W(")")>>),
       L(4, <<W("return"), W("r")>>),
       L(0, <<W("x"), W("="), W("g"), W("("), N(3), W(")")>>),
       L(0, <<W("print"), W("x"), W(","), W("f"), W("("), N(4), W(")")>>),
       L(0, <<W("f"), W("("), N(5), W(")")>>) >>

ImplicitReturnSources ==
    << ImplicitReturnSource(<<W("pass")>>),
       ImplicitReturnSource(<<W("b"), W("="), W("a"), W("+"), N(1)>>),
       ImplicitReturnSource(<<W("print"), W("a")>>),
       ImplicitReturnSource(<<W("a")>>),
       ImplicitReturnSource(<<W("return")>>),
       ImplicitReturnSource(<<W("return"), W("a"), W("*"), N(2)>>) >>

\* a function of two parameters and two more locals, called with two
\* different arguments while the caller holds a value on its stack
CallFrameSource(x, y) ==
    << L(0, <<W("def"), W("f"), W("("), W("a"), W(","), W("b"), W(")"), W(":")>>),
       L(4, <<W("c"), W("="), W("a"), W("-"), W("b")>>),
       L(4, <<W("d"), W("="), W("c"), W("*"), N(2)>>),
       L(4, <<W("return"), W("d")>>),
       L(0, <<W("print"), N(1), W("+"), W("f"), W("("), x, W(","), y, W(")")>>) >>

\* two function definitions in the module scope, each called once it is made
TwoDefsSource(c) ==
    << L(0, <<W("def"), W(c.first), W("("), W(")"), W(":")>>),
       L(4, <<W("return"), N(c.a)>>),
       L(0, <<W("print"), W(c.first), W("("), W(")")>>),
       L(0, <<W("def"), W(c.second), W("("), W(")"), W(":")>>),
       L(4, <<W("return"), N(c.b)>>),
       L(0, <<W("print"), W(c.second), W("("), W(")")>>) >>

TwoDefsCases ==
    << [first |-> "f", second |-> "f", a |-> 1, b |-> 2],
       [first |-> "f", second |-> "f", a |-> 2, b |-> 1],
       [first |-> "f", second |-> "f", a |-> 1, b |-> 1],
       [first |-> "f", second |-> "g", a |-> 1, b |-> 2],
       [first |-> "g", second |-> "f", a |-> 2, b |-> 2] >>

TwoDefsSources == [i \in DOMAIN TwoDefsCases |-> TwoDefsSource(TwoDefsCases[i])]

\* a function defined inside a function, and the module using the inner
\* name once the enclosing call has returned; first the module may bind the
\* inner name itself
NestedDefSource(first, last) ==
    first \o
    << L(0, <<W("def"), W("outer"), W("("), W("a"), W(")"), W(":")>>),
       L(4, <<W("def"), W("inner"), W("("), W("b"), W(")"), W(":")>>),
       L(8, <<W("return"), W("b"), W("+"), N(1)>>),
       L(4, <<W("return"), W("inner"), W("("), W("a"), W(")")>>),
       L(0, <<W("print"), W("outer"), W("("), N(2), W(")")>>),
       L(0, last) >>

NestedDefSources ==
    << NestedDefSource(<<>>, <<W("print"), W("inner"), W("("), N(5), W(")")>>),
       NestedDefSource(<<>>, <<W("print"), N(4)>>),
       NestedDefSource(<< L(0, <<W("inner"), W("="), N(7)>>) >>,
                       <<W("print"), W("inner"), W("+"), N(1)>>) >>

\* unary minus on a string
BadOperandSource ==
    << L(0, <<W("x"), W("="), W("-"), Q(<<"a">>)>>),
       L(0, <<W("print"), N(1)>>) >>

\* an ordering comparison of an integer with a string
BadCompareSource ==
    << L(0, <<W("x"), W("="), N(1), W("<"), Q(<<"a">>)>>),
       L(0, <<W("print"), N(1)>>) >>

\* len() of an integer
BadBuiltinSource ==
    << L(0, <<W("print"), W("len"), W("("), N(5), W(")")>>),
       L(0, <<W("print"), N(1)>>) >>

\* range() with a zero step
BadRangeSource ==
    << L(0, <<W("x"), W("="), W("range"), W("("), N(1), W(","), N(2), W(","), N(0), W(")")>>),
       L(0, <<W("print"), N(1)>>) >>

\* a function that reads a name before the assignment that makes it local
ReadBeforeAssignSource ==
    << L(0, <<W("x"), W("="), N(1)>>),
       L(0, <<W("def"), W("f"), W("("), W(")"), W(":")>>),
       L(4, <<W("y"), W("="), W("x")>>),
       L(4, <<W("x"), W("="), N(2)>>),
       L(4, <<W("return"), W("y")>>),
       L(0, <<W("print"), W("f"), W("("), W(")")>>),
       L(0, <<W("print"), W("x")>>) >>

\* a function that assigns a name a global also has, then reads it
AssignOnlySource ==
    << L(0, <<W("x"), W("="), N(1)>>),
       L(0, <<W("def"), W("f"), W("("), W(")"), W(":")>>),
       L(4, <<W("x"), W("="), N(2)>>),
       L(4, <<W("return"), W("x")>>),
       L(0, <<W("print"), W("f"), W("("), W(")")>>),
       L(0, <<W("print"), W("x")>>) >>

\* a parameter with the name of a global
ParamShadowSource ==
    << L(0, <<W("x"), W("="), N(1)>>),
       L(0, <<W("def"), W("f"), W("("), W("x"), W(")"), W(":")>>),
       L(4, <<W("x"), W("="), W("x"), W("+"), N(1)>>),
       L(4, <<W("return"), W("x")>>),
       L(0, <<W("print"), W("f"), W("("), N(5), W(")")>>),
       L(0, <<W("print"), W("x")>>) >>

\* a function that only reads a global
GlobalReadSource ==
    << L(0, <<W("x"), W("="), N(1)>>),
       L(0, <<W("def"), W("f"), W("("), W(")"), W(":")>>),
       L(4, <<W("return"), W("x"), W("+"), N(1)>>),
       L(0, <<W("print"), W("f"), W("("), W(")")>>) >>

\* a function whose first use of a name is an augmented assignment
AugAssignFirstSource ==
    << L(0, <<W("x"), W("="), N(1)>>),
       L(0, <<W("def"), W("f"), W("("), W(")"), W(":")>>),
       L(4, <<W("x"), W("+="), N(1)>>),
       L(4, <<W("return"), W("x")>>),
       L(0, <<W("print"), W("f"), W("("), W(")")>>),
       L(0, <<W("print"), W("x")>>) >>

\* a function that assigns a name, then augments it
AugAssignLocalSource ==
    << L(0, <<W("x"), W("="), N(1)>>),
       L(0, <<W("def"), W("f"), W("("), W(")"), W(":")>>),
       L(4, <<W("x"), W("="), N(5)>>),
       L(4, <<W("x"), W("-="), N(1)>>),
       L(4, <<W("return"), W("x")>>),
       L(0, <<W("print"), W("f"), W("("), W(")")>>),
       L(0, <<W("print"), W("x")>>) >>

\* a function whose for target has the name of a global
LoopTargetSource ==
    << L(0, <<W("i"), W("="), N(9)>>),
       L(0, <<W("def"), W("f"), W("("), W(")"), W(":")>>),
       L(4, <<W("for"), W("i"), W("in"), W("range"), W("("), N(3), W(")"), W(":")>>),
       L(8, <<W("t"), W("="), W("i")>>),
       L(4, <<W("return"), W("t"), W("+"), W("i")>>),
       L(0, <<W("print"), W("f"), W("("), W(")")>>),
       L(0, <<W("print"), W("i")>>) >>

\* pkg e2e test recursive_function
FactorialSource(n) ==
    << L(0, <<W("def"), W("factorial"), W("("), W("n"), W(")"), W(":")>>),
       L(4, <<W("if"), W("n"), W("<="), N(1), W(":")>>),
       L(8, <<W("return"), N(1)>>),
       L(4,
         <<W("return"), W("n"), W("*"), W("factorial"), W("("), W("n"), W("-"), N(1), W(")")>>),
       L(0, <<W("result"), W("="), W("factorial"), W("("), n, W(")")>>),
       L(0, <<W("print"), W("result")>>) >>

\* a doubly recursive function with a local kept across the inner call
FibSource(n) ==
    << L(0, <<W("def"), W("fib"), W("("), W("n"), W(")"), W(":")>>),
       L(4, <<W("if"), W("n"), W("<"), N(2), W(":")>>),
       L(8, <<W("return"), W("n")>>),
       L(4, <<W("a"), W("="), W("fib"), W("("), W("n"), W("-"), N(1), W(")")>>),
       L(4, <<W("return"), W("a"), W("+"), W("fib"), W("("), W("n"), W("-"), N(2), W(")")>>),
       L(0, <<W("print"), W("fib"), W("("), n, W(")")>>) >>

\* pkg e2e test nested function calls
SumOfSquaresSource ==
    << L(0, <<W("def"), W("square"), W("("), W("x"), W(")"), W(":")>>),
       L(4, <<W("return"), W("x"), W("*"), W("x")>>),
       L(0, <<W("def"), W("sum_of_squares"), W("("), W("a"), W(","), W("b"), W(")"), W(":")>>),
       L(4,
         <<W("return"), W("square"), W("("), W("a"), W(")"), W("+"), W("square"), W("("), W("b"), W(")")>>),
       L(0, <<W("result"), W("="), W("sum_of_squares"), W("("), N(3), W(","), N(4), W(")")>>),
       L(0, <<W("print"), W("result")>>) >>

\* a recursive function whose local is set before the inner call
LocalsAcrossCallSource(n) ==
    << L(0, <<W("def"), W("f"), W("("), W("n"), W(")"), W(":")>>),
       L(4, <<W("a"), W("="), W("n"), W("*"), N(10)>>),
       L(4, <<W("if"), W("n"), W(">"), N(0), W(":")>>),
       L(8, <<W("b"), W("="), W("f"), W("("), W("n"), W("-"), N(1), W(")")>>),
       L(8, <<W("a"), W("="), W("a"), W("+"), W("b")>>),
       L(4, <<W("return"), W("a")>>),
       L(0, <<W("print"), N(100), W("+"), W("f"), W("("), n, W(")")>>) >>

\* a recursion that never returns
DeepRecursionSource ==
    << L(0, <<W("def"), W("f"), W("("), W("n"), W(")"), W(":")>>),
       L(4, <<W("return"), W("f"), W("("), W("n"), W(")")>>),
       L(0, <<W("f"), W("("), N(1), W(")")>>) >>

\* the largest length of an iterated range and count of a while loop
MaxN == 3
\* the largest argument of the recursive functions: factorial(5) = 120
MaxArg == 5

\* the operands of the boolean programs: falsy and truthy values of every
\* literal kind, and a name that is never defined
Operands ==
    <<N(0), N(2), Q(<<>>), Q(<<"a">>), W("True"), W("False"), W("None"), W("undefined_name")>>
ChainOperands == <<N(0), N(2), W("undefined_name")>>
BoolOps == <<W("and"), W("or")>>

\* the operands of the equality programs: a literal of every kind, with an
\* integer and the float of the same value
EqOperands ==
    <<N(1), F(<<"1", ".", "0">>), N(2), F(<<"2", ".", "5">>), W("True"), Q(<<"1">>), W("None")>>
EqOps == <<W("=="), W("!=")>>

EqualitySources ==
    LET n == Len(EqOperands) IN
    [i \in 1..(n * 2 * n) |->
        EqualitySource(EqOperands[((i - 1) \div (2 * n)) + 1], EqOps[(((i - 1) \div n) % 2) + 1],
                       EqOperands[((i - 1) % n) + 1])]

\* the keys of the dict literals are 1..MaxKey
MaxKey == 3

DictLiteralSources ==
    [i \in 1..(MaxKey * MaxKey * MaxKey) |->
        DictLiteralSource(N(((i - 1) \div (MaxKey * MaxKey)) + 1),
                          N((((i - 1) \div MaxKey) % MaxKey) + 1), N(((i - 1) % MaxKey) + 1))]

DictOrderSources ==
    [i \in 1..(MaxKey * MaxKey) |->
        DictOrderSource(N(((i - 1) \div MaxKey) + 1), N(((i - 1) % MaxKey) + 1))]

TrailingCommaSources ==
    << TrailingCommaSource(<<W("[")>>, <<N(1)>>, <<W("]")>>),
       TrailingCommaSource(<<W("[")>>, <<N(1), W(","), N(2)>>, <<W("]")>>),
       TrailingCommaSource(<<W("{")>>, <<N(1), W(":"), N(2)>>, <<W("}")>>),
       TrailingCommaSource(<<W("{")>>, <<N(1), W(":"), N(2), W(","), N(3), W(":"), N(4)>>,
                           <<W("}")>>),
       TrailingCommaSource(<<W("len"), W("(")>>, <<Q(<<"a", "b">>)>>, <<W(")")>>),
       TrailingCommaSource(<<W("range"), W("(")>>, <<N(1), W(","), N(3)>>, <<W(")")>>),
       TrailingCommaSource(<<W("len"), W("("), W("[")>>, <<N(1), W(","), N(2)>>,
                           <<W("]"), W(")")>>) >>

\* expressions that mix the levels of the precedence ladder, each with its
\* grouping by the ladder: or, and, not, comparison and in, + -, * / %,
\* unary + -, call and subscript, atom
PrecedenceSources ==
    LET list12 == <<W("["), N(1), W(","), N(2), W("]")>> IN
    << PrecedenceSource(<<N(2), W("+"), N(3), W("*"), N(4)>>,
                        <<N(2), W("+")>> \o Group(<<N(3), W("*"), N(4)>>)),
       PrecedenceSource(Group(<<N(2), W("+"), N(3)>>) \o <<W("*"), N(4)>>,
                        Group(<<N(2), W("+"), N(3)>>) \o <<W("*"), N(4)>>),
       PrecedenceSource(<<N(2), W("*"), N(3), W("+"), N(4)>>,
                        Group(<<N(2), W("*"), N(3)>>) \o <<W("+"), N(4)>>),
       PrecedenceSource(<<N(2), W("*")>> \o Group(<<N(3), W("+"), N(4)>>),
                        <<N(2), W("*")>> \o Group(<<N(3), W("+"), N(4)>>)),
       PrecedenceSource(<<N(10), W("-"), N(4), W("-"), N(3)>>,
                        Group(<<N(10), W("-"), N(4)>>) \o <<W("-"), N(3)>>),
       PrecedenceSource(<<N(10), W("-"), N(4), W("+"), N(3)>>,
                        Group(<<N(10), W("-"), N(4)>>) \o <<W("+"), N(3)>>),
       PrecedenceSource(<<N(20), W("/"), N(4), W("/"), N(2)>>,
                        Group(<<N(20), W("/"), N(4)>>) \o <<W("/"), N(2)>>),
       PrecedenceSource(<<N(7), W("%"), N(4), W("*"), N(2)>>,
                        Group(<<N(7), W("%"), N(4)>>) \o <<W("*"), N(2)>>),
       PrecedenceSource(<<N(2), W("*"), N(7), W("%"), N(4)>>,
                        Group(<<N(2), W("*"), N(7)>>) \o <<W("%"), N(4)>>),
       PrecedenceSource(<<N(9), W("-"), N(8), W("/"), N(2)>>,
                        <<N(9), W("-")>> \o Group(<<N(8), W("/"), N(2)>>)),
       PrecedenceSource(<<W("-"), N(2), W("+"), N(3)>>,
                        Group(<<W("-"), N(2)>>) \o <<W("+"), N(3)>>),
       PrecedenceSource(<<W("-"), N(2), W("*"), N(3)>>,
                        Group(<<W("-"), N(2)>>) \o <<W("*"), N(3)>>),
       PrecedenceSource(<<N(2), W("*"), W("-"), N(3)>>,
                        <<N(2), W("*")>> \o Group(<<W("-"), N(3)>>)),
       PrecedenceSource(<<W("-"), W("+"), N(2)>>,
                        <<W("-")>> \o Group(<<W("+"), N(2)>>)),
       PrecedenceSource(<<W("-"), W("len"), W("("), Q(<<"a", "b">>), W(")")>>,
                        <<W("-"), W("len"), W("("), Q(<<"a", "b">>), W(")")>>),
       PrecedenceSource(<<W("-"), W("["), N(2), W("]"), W("["), N(0), W("]")>>,
                        <<W("-"), W("["), N(2), W("]"), W("["), N(0), W("]")>>),
       PrecedenceSource(<<N(1), W("+"), N(2), W("<"), N(2), W("*"), N(2)>>,
                        Group(<<N(1), W("+"), N(2)>>) \o <<W("<")>>
                            \o Group(<<N(2), W("*"), N(2)>>)),
       PrecedenceSource(<<N(1), W("+"), N(1), W("in")>> \o list12,
                        Group(<<N(1), W("+"), N(1)>>) \o <<W("in")>> \o list12),
       PrecedenceSource(<<W("not"), N(1), W("<"), N(2)>>,
                        <<W("not")>> \o Group(<<N(1), W("<"), N(2)>>)),
       PrecedenceSource(<<W("not"), Q(<<"c">>), W("in"), Q(<<"a", "b">>)>>,
                        <<W("not")>> \o Group(<<Q(<<"c">>), W("in"), Q(<<"a", "b">>)>>)),
       PrecedenceSource(<<W("not"), N(0), W("and"), N(0)>>,
                        Group(<<W("not"), N(0)>>) \o <<W("and"), N(0)>>),
       PrecedenceSource(<<W("not"), N(0), W("or"), N(1)>>,
                        Group(<<W("not"), N(0)>>) \o <<W("or"), N(1)>>),
       PrecedenceSource(<<N(1), W("or"), N(0), W("and"), N(0)>>,
                        <<N(1), W("or")>> \o Group(<<N(0), W("and"), N(0)>>)),
       PrecedenceSource(<<N(0), W("and"), N(0), W("or"), N(1)>>,
                        Group(<<N(0), W("and"), N(0)>>) \o <<W("or"), N(1)>>),
       PrecedenceSource(<<N(1), W("<"), N(2), W("and"), N(3), W("<"), N(2)>>,
                        Group(<<N(1), W("<"), N(2)>>) \o <<W("and")>>
                            \o Group(<<N(3), W("<"), N(2)>>)),
       PrecedenceSource(<<N(0), W("or"), W("not"), N(0)>>,
                        <<N(0), W("or")>> \o Group(<<W("not"), N(0)>>)),
       PrecedenceSource(<<N(1), W("and"), W("not"), N(0)>>,
                        <<N(1), W("and")>> \o Group(<<W("not"), N(0)>>)),
       PrecedenceSource(<<W("not"), N(3), W("<"), N(2), W("+"), N(1)>>,
                        <<W("not")>> \o Group(<<N(3), W("<"), N(2), W("+"), N(1)>>)),
       PrecedenceSource(<<N(3), W("<"), N(2), W("+"), N(1), W("*"), W("-"), N(1)>>,
                        <<N(3), W("<")>> \o Group(<<N(2), W("+"), N(1), W("*"), W("-"), N(1)>>)),
       PrecedenceSource(<<N(3), W("-"), N(2), W("+"), N(1), W("*"), W("-"), N(1)>>,
                        <<N(3), W("-"), N(2), W("+")>> \o Group(<<N(1), W("*"), W("-"), N(1)>>)) >>

\* the largest absolute value of the operands of the division programs
MaxOperand == 4

\* a / b, a % b and the identity for every a and b in -MaxOperand..MaxOperand
DivModSources ==
    LET n == 2 * MaxOperand + 1 IN
    [i \in 1..(3 * n * n) |->
        LET a == (((i - 1) \div n) % n) - MaxOperand
            b == ((i - 1) % n) - MaxOperand
        IN  CASE (i - 1) \div (n * n) = 0 -> DivModSource(a, W("/"), b)
              [] (i - 1) \div (n * n) = 1 -> DivModSource(a, W("%"), b)
              [] OTHER -> DivModIdentitySource(a, b)]

\* the operands and operators of the comparison chains
CompareOperands == <<N(1), N(2), W("True")>>
CompareOps == <<W("<"), W("=="), W(">")>>

CompareChainSources ==
    LET n == Len(CompareOperands)
        m == Len(CompareOps)
    IN  [i \in 1..(n * m * n * m * n) |->
            CompareChainSource(CompareOperands[((i - 1) \div (m * n * m * n)) + 1],
                               CompareOps[(((i - 1) \div (n * m * n)) % m) + 1],
                               CompareOperands[(((i - 1) \div (m * n)) % n) + 1],
                               CompareOps[(((i - 1) \div n) % m) + 1],
                               CompareOperands[((i - 1) % n) + 1])]

BoolOpSources ==
    LET n == Len(Operands) IN
    [i \in 1..(n * 2 * n) |->
        BoolOpSource(Operands[((i - 1) \div (2 * n)) + 1], BoolOps[(((i - 1) \div n) % 2) + 1],
                     Operands[((i - 1) % n) + 1])]

BoolOpStoreSources ==
    LET n == Len(Operands) IN
    [i \in 1..(n * 2 * n) |->
        BoolOpStoreSource(Operands[((i - 1) \div (2 * n)) + 1],
                          BoolOps[(((i - 1) \div n) % 2) + 1], Operands[((i - 1) % n) + 1])]

BoolOpChainSources ==
    LET n == Len(ChainOperands) IN
    [i \in 1..(n * 2 * n * 2 * n) |->
        BoolOpChainSource(ChainOperands[((i - 1) \div (4 * n * n)) + 1],
                          BoolOps[(((i - 1) \div (2 * n * n)) % 2) + 1],
                          ChainOperands[(((i - 1) \div (2 * n)) % n) + 1],
                          BoolOps[(((i - 1) \div n) % 2) + 1],
                          ChainOperands[((i - 1) % n) + 1])]

ForNestedSources ==
    [i \in 1..((MaxN + 1) * (MaxN + 1)) |->
        ForNestedSource(N((i - 1) \div (MaxN + 1)), N((i - 1) % (MaxN + 1)))]

ControlFlowSources ==
    <<IfElseSource(N(3)), IfElseSource(N(5)), IfElseSource(N(6)), IfElseSource(N(10))>>
        \o <<ElifSource(N(95)), ElifSource(N(90)), ElifSource(N(85)), ElifSource(N(75)),
             ElifSource(N(50))>>
        \o <<IfInFunctionSource(N(3)), IfInFunctionSource(N(10))>>
        \o <<IfOnlySource(N(3)), IfOnlySource(N(10))>>
        \o [i \in 1..(MaxN + 1) |-> WhileSource(N(i - 1))]

DataSources ==
    <<ListStoreSource, DictStoreSource, SubscriptReadSource, PrintHelloSource,
      PrintPairSource, PrintVariablesSource, PrintManySource>>

LoopSources ==
    [i \in 1..(MaxN + 1) |-> ForRangeSource(N(i - 1))]
        \o <<ForListSource, ForStringSource>> \o ForNestedSources
        \o [i \in 1..(MaxN + 1) |-> ForInFunctionSource(N(i - 1))]

TrailingSources ==
    <<TrailingSumSource, EmptySource, TrailingAssignSource, TrailingPrintSource,
      TrailingPassSource, TrailingStringSource, TrailingCallSource, TrailingLoopSource,
      TrailingDefSource>>
        \o [i \in 1..(MaxN + 1) |-> TrailingArithSource(N(i - 1))]
        \o [i \in 1..(MaxN + 1) |-> TrailingDivSource(N(i - 1))]
        \o [i \in 1..(MaxN + 1) |-> TrailingCompareSource(N(i - 1))]
        \o [i \in 1..(MaxN + 1) |-> TrailingNegSource(N(i - 1))]

\* the largest number of parameters and of arguments of the call programs
MaxCallArgs == 2

CallFrameSources ==
    [i \in 1..((MaxN + 1) * (MaxN + 1)) |->
        CallFrameSource(N((i - 1) \div (MaxN + 1)), N((i - 1) % (MaxN + 1)))]

\* calls of values that are not functions, and calls of a function with
\* every number of arguments up to MaxCallArgs
CallSources ==
    LET callees == << <<N(5)>>, <<Q(<<"a">>)>>, <<W("None")>>, <<W("True")>>,
                      <<F(<<"1", ".", "5">>)>>, <<W("["), W("]")>> >>
        m == MaxCallArgs + 1
    IN  [i \in 1..(Len(callees) * m) |->
            CallValueSource(callees[((i - 1) \div m) + 1], (i - 1) % m)]
        \o [i \in 1..(m * m) |-> ArityCallSource((i - 1) \div m, (i - 1) % m)]
        \o <<CallArgumentSource(<<N(5)>>), CallArgumentSource(<<W("h")>>)>>

\* for loops over a value of every variant
GetIterSources ==
    << GetIterSource(<<N(42)>>), GetIterSource(<<N(0)>>), GetIterSource(<<W("True")>>),
       GetIterSource(<<W("None")>>), GetIterSource(<<F(<<"1", ".", "5">>)>>),
       GetIterSource(<<W("{"), N(1), W(":"), N(2), W("}")>>), GetIterSource(<<W("len")>>),
       GetIterSource(<<Q(<<>>)>>), GetIterSource(<<Q(<<"a">>)>>),
       GetIterSource(<<Q(<<"a", "b", "a">>)>>),
       GetIterSource(<<W("["), W("]")>>), GetIterSource(<<W("["), N(1), W(","), N(2), W("]")>>) >>
        \o [i \in 1..(MaxN + 1) |-> GetIterNamedSource(N(i - 1))]

ErrorSources ==
    <<NameErrorSource, DivZeroSource, ModZeroSource, ErrorInFunctionSource, ErrorNestedSource,
      IndexErrorSource, KeyErrorSource, NotCallableSource, ArgCountSource, NotIterableSource,
      BadOperandSource, BadCompareSource, BadBuiltinSource, BadRangeSource>>

FunctionSources ==
    <<ReadBeforeAssignSource, AssignOnlySource, ParamShadowSource, GlobalReadSource,
      AugAssignFirstSource, AugAssignLocalSource, LoopTargetSource, SumOfSquaresSource>>
        \o [i \in 1..(MaxArg + 1) |-> FactorialSource(N(i - 1))]
        \o [i \in 1..(MaxArg + 1) |-> FibSource(N(i - 1))]
        \o [i \in 1..(MaxN + 1) |-> LocalsAcrossCallSource(N(i - 1))]

Sources ==
    ControlFlowSources \o DataSources \o LoopSources \o BoolOpSources \o BoolOpStoreSources
        \o BoolOpChainSources \o TrailingSources \o ErrorSources \o FunctionSources
        \o EqualitySources \o <<FloatArithSource>> \o DictLiteralSources
        \o [i \in 1..(MaxN + 1) |-> ListAppendSource(N(i - 1))]
        \o TrailingCommaSources \o CompareChainSources \o PrecedenceSources
        \o DivModSources \o GetIterSources \o CallSources \o DictOrderSources \o ForTargetSources \o ImplicitReturnSources \o CallFrameSources \o TwoDefsSources \o NestedDefSources
        \o <<ShadowSource(W("len")), ShadowSource(W("type")), ShadowSource(W("str")),
             ShadowSource(W("z"))>>

Init == \E i \in DOMAIN Sources : InitWith(Sources[i])

Spec == Init /\ [][Next]_vars

SpecTwoRuns == Init /\ [][NextTwoRuns]_vars

\* lines typed at the prompt of the read-eval-print loop
ReplLines ==
    << << L(0, <<W("print"), W("y")>>) >>,
       << L(0, <<W("x"), W("="), N(1)>>) >>,
       << L(0, <<W("print"), W("x")>>) >>,
       << L(0, <<W("print"), N(1), W("/"), N(0)>>) >>,
       << L(0, <<W("x"), W("+"), N(1)>>) >>,
       << L(0, <<W("print"), N(2), W("+")>>) >>,
       << L(0, <<W("print"), N(7)>>) >>,
       << L(0, <<W("x"), W("="), W("len"), W("("), N(5), W(")")>>) >> >>

\* runREPL once executeREPLLine has returned: the next line is read and
\* executeREPLLine starts on it with the same VM.  Two lines are read; out
\* holds what the line being executed has written, and what the line
\* before it gave is kept in firstRun
ReplNextLine ==
    /\ outcome \in {"value", "error", "parse_error", "compile_error"}
    /\ ~firstRun.done
    /\ firstRun' = [done |-> TRUE, outcome |-> outcome, result |-> result, err |-> err,
                    out |-> out, heap |-> heap]
    /\ \E i \in DOMAIN ReplLines : source' = ReplLines[i]
    /\ pc' = "lex"
    /\ tokens' = <<>>
    /\ module' = <<>>
    /\ code' = NoCode
    /\ out' = <<>>
    /\ outcome' = ""
    /\ result' = GoNil
    /\ err' = NoErr
    /\ UNCHANGED <<frames, globals, builtins, heap, lexer, bytecode>>

NextRepl == Next \/ ReplNextLine

InitRepl == \E i \in DOMAIN ReplLines : InitWith(ReplLines[i])

SpecRepl == InitRepl /\ [][NextRepl]_vars

SpecBytecode == Init /\ [][NextBytecode]_vars

(***************************************************************************)
(* The lexer alone, on texts given character by character                  *)
(***************************************************************************)
\* one iteration of the loop of Lexer.AllTokens: the next token is appended,
\* and EOF ends the loop
AllTokensNext ==
    /\ pc = "tokens"
    /\ LET t == LexerNextToken(lexer) IN
        /\ lexer' = t.l
        /\ tokens' = Append(tokens, t.token)
        /\ pc' = IF t.token.type = "EOF" THEN "lexed" ELSE "tokens"
    /\ UNCHANGED <<source, module, code, frames, globals, builtins, firstRun, bytecode, heap, out, outcome, result, err>>

\* lexer.NewLexer(src) on a text
NewLexerOn(src) ==
    /\ pc = "text"
    /\ source' = src
    /\ lexer' = NewLexer(src)
    /\ pc' = "tokens"
    /\ UNCHANGED <<tokens, module, code, frames, globals, builtins, firstRun, bytecode, heap, out, outcome, result, err>>

\* the lines the texts are made of: code at indentations 0, 1, 2 and 8, a
\* bare newline, a line of spaces, a comment, a line that is a carriage
\* return
LexerLines ==
    << <<"a">>, <<" ", "a">>, <<" ", " ", "a", ":">>, <<"\t", "a">>, <<>>,
       <<" ", " ", " ">>, <<" ", "#", "c">>, <<"\r">> >>

\* the largest number of lines of a text
MaxLines == 3

RECURSIVE TextOf(_, _)
\* the text of n lines chosen by the digits of i, joined by newlines
TextOf(n, i) ==
    IF n = 0 THEN <<>>
    ELSE LexerLines[(i % Len(LexerLines)) + 1]
            \o (IF n = 1 THEN <<>> ELSE <<"\n">> \o TextOf(n - 1, i \div Len(LexerLines)))

LexerSources ==
    LET RECURSIVE Count(_)
        Count(n) == IF n = 0 THEN 1 ELSE Len(LexerLines) * Count(n - 1)
    IN  UNION {{TextOf(n, i) : i \in 0..(Count(n) - 1)} : n \in 0..MaxLines}

NextLexer == (\E src \in LexerSources : NewLexerOn(src)) \/ AllTokensNext

\* before a text is given to the lexer
InitLexer ==
    /\ source = <<>>
    /\ lexer = NewLexer(<<>>)
    /\ tokens = <<>>
    /\ pc = "text"
    /\ module = <<>>
    /\ code = NoCode
    /\ frames = <<>>
    /\ globals = <<>>
    /\ builtins = NewVM
    /\ firstRun = NoRun
    /\ bytecode = NoFile
    /\ heap = <<>>
    /\ out = <<>>
    /\ outcome = ""
    /\ result = GoNil
    /\ err = NoErr

SpecLexer == InitLexer /\ [][NextLexer]_vars

\* lines with a string literal: one that holds a newline character, followed
\* by a blank and more of the line, or by more of the line at once; one
\* without a newline; one with the escape of a newline; and lines that open
\* and continue a block
StringLines ==
    << <<"a", "=", "\"", "x", "\n", "y", "\"", " ", "+", "b">>,
       <<" ", "a", "=", "\"", "\n", "\"", ",", "b">>,
       <<"a", "=", "\"", "x", "y", "\"", " ", "+", "b">>,
       <<" ", "a", "=", "\"", "x", "\\", "n", "y", "\"", ",", "b">>,
       <<"a", ":">>,
       <<" ", "b">> >>

\* the largest number of lines of a text with strings
MaxStringLines == 2

RECURSIVE StringTextOf(_, _)
\* the text of n lines chosen by the digits of i, joined by newlines
StringTextOf(n, i) ==
    IF n = 0 THEN <<>>
    ELSE StringLines[(i % Len(StringLines)) + 1]
            \o (IF n = 1 THEN <<>>
                ELSE <<"\n">> \o StringTextOf(n - 1, i \div Len(StringLines)))

StringSources ==
    LET RECURSIVE Count(_)
        Count(n) == IF n = 0 THEN 1 ELSE Len(StringLines) * Count(n - 1)
    IN  UNION {{StringTextOf(n, i) : i \in 0..(Count(n) - 1)} : n \in 1..MaxStringLines}

NextStrings == (\E src \in StringSources : NewLexerOn(src)) \/ AllTokensNext

SpecStrings == InitLexer /\ [][NextStrings]_vars

\* the pipeline on the recursion that outgrows the frame array
InitDeep == InitWith(DeepRecursionSource)

SpecDeep == InitDeep /\ [][Next]_vars

(***************************************************************************)
(* The language as the specification describes it, for the programs of a   *)
(* small fragment: what a run is compared with.  A value here is a tagged  *)
(* record as above, except that a list holds its elements.                 *)
(***************************************************************************)
RefError == [t |-> "error"]
RefList(elems) == [t |-> "list", elems |-> elems]

\* truthiness: zero, the empty string, the empty list, False and None are falsy
RefTruthy(v) ==
    CASE v.t = "int" -> v.v # 0
      [] v.t = "str" -> v.v # <<>>
      [] v.t = "bool" -> v.v
      [] v.t = "list" -> v.elems # <<>>
      [] OTHER -> FALSE

RECURSIVE Render(_)
\* the printed form: a string in double quotes, an integer in decimal
Render(v) ==
    CASE v.t = "int" -> Itoa(v.v)
      [] v.t = "str" -> <<"\"">> \o v.v \o <<"\"">>
      [] v.t = "bool" -> IF v.v THEN <<"T", "r", "u", "e">> ELSE <<"F", "a", "l", "s", "e">>
      [] v.t = "list" ->
            <<"[">> \o JoinStrings([i \in 1..Len(v.elems) |-> Render(v.elems[i])], <<",", " ">>)
                \o <<"]">>
      [] OTHER -> <<"N", "o", "n", "e">>

RECURSIVE InFragment(_)
\* the expressions the reference covers: literals, names, lists, integer
\* + - *, string +, not, unary minus, one comparison, and/or, range(e)
InFragment(e) ==
    CASE e.k = "Num" -> ~IsFloatNum(e)
      [] e.k \in {"Str", "NameConstant", "Name"} -> TRUE
      [] e.k = "List" -> \A i \in DOMAIN e.elts : InFragment(e.elts[i])
      [] e.k = "BinaryOp" -> e.op \in {"+", "-", "*"} /\ InFragment(e.left) /\ InFragment(e.right)
      [] e.k = "UnaryOp" -> e.op \in {"-", "not"} /\ InFragment(e.expr)
      [] e.k = "Compare" ->
            Len(e.ops) = 1 /\ e.ops[1] # "in" /\ InFragment(e.left) /\ InFragment(e.right[1])
      [] e.k = "BoolOp" -> \A i \in DOMAIN e.values : InFragment(e.values[i])
      [] e.k = "Call" ->
            e.func.k = "Name" /\ e.func.id = "range" /\ Len(e.args) = 1 /\ InFragment(e.args[1])
      [] OTHER -> FALSE

RECURSIVE RefExpr(_, _), RefBoolOp(_, _, _, _)
\* the value of expression e under the global bindings env, or RefError
RefExpr(e, env) ==
    CASE e.k = "Num" -> PyInt(e.n)
      [] e.k = "Str" -> PyString(e.s)
      [] e.k = "NameConstant" ->
            IF e.value = "NONE" THEN PyNone ELSE PyBool(e.value = "TRUE")
      [] e.k = "Name" -> IF e.id \in DOMAIN env THEN env[e.id] ELSE RefError
      [] e.k = "List" ->
            LET vs == [i \in DOMAIN e.elts |-> RefExpr(e.elts[i], env)] IN
            IF \E i \in DOMAIN vs : vs[i] = RefError THEN RefError ELSE RefList(vs)
      [] e.k = "BinaryOp" ->
            LET l == RefExpr(e.left, env)
                r == RefExpr(e.right, env)
            IN  CASE l = RefError \/ r = RefError -> RefError
                  [] l.t = "int" /\ r.t = "int" ->
                        PyInt(CASE e.op = "+" -> l.v + r.v
                                [] e.op = "-" -> l.v - r.v
                                [] OTHER -> l.v * r.v)
                  [] l.t = "str" /\ r.t = "str" /\ e.op = "+" -> PyString(l.v \o r.v)
                  [] OTHER -> RefError
      [] e.k = "UnaryOp" ->
            LET v == RefExpr(e.expr, env) IN
            CASE v = RefError -> RefError
              [] e.op = "not" -> PyBool(~RefTruthy(v))
              [] v.t = "int" -> PyInt(-v.v)
              [] OTHER -> RefError
      [] e.k = "Compare" ->
            LET l == RefExpr(e.left, env)
                r == RefExpr(e.right[1], env)
            IN  CASE l = RefError \/ r = RefError -> RefError
                  [] l.t = "int" /\ r.t = "int" ->
                        PyBool(CASE e.ops[1] = "<" -> l.v < r.v
                                 [] e.ops[1] = "<=" -> l.v <= r.v
                                 [] e.ops[1] = ">" -> l.v > r.v
                                 [] e.ops[1] = ">=" -> l.v >= r.v
                                 [] e.ops[1] = "==" -> l.v = r.v
                                 [] OTHER -> l.v # r.v)
                  [] OTHER -> RefError
      [] e.k = "BoolOp" -> RefBoolOp(e.op, e.values, 1, env)
      [] OTHER ->
            LET n == RefExpr(e.args[1], env) IN
            IF n = RefError \/ "range" \in DOMAIN env THEN RefError
            ELSE IF n.t # "int" THEN RefError
            ELSE RefList([i \in 1..n.v |-> PyInt(i - 1)])

\* and / or from operand i on: the first operand that decides, else the last
RefBoolOp(op, values, i, env) ==
    LET v == RefExpr(values[i], env) IN
    IF v = RefError \/ i = Len(values) THEN v
    ELSE IF RefTruthy(v) = (op = "or") THEN v
    ELSE RefBoolOp(op, values, i + 1, env)

RECURSIVE StmtInFragment(_)
\* the statements the reference covers
StmtInFragment(s) ==
    CASE s.k = "AssignStmt" -> s.target.k = "Name" /\ InFragment(s.value)
      [] s.k = "ExprStmt" -> InFragment(s.expr)
      [] s.k = "PrintStmt" -> \A i \in DOMAIN s.values : InFragment(s.values[i])
      [] s.k = "PassStmt" -> TRUE
      [] s.k = "IfStmt" ->
            /\ InFragment(s.test)
            /\ \A i \in DOMAIN s.body : StmtInFragment(s.body[i])
            /\ \A i \in DOMAIN s.orelse : StmtInFragment(s.orelse[i])
      [] s.k = "ForStmt" ->
            /\ s.target.k = "Name"
            /\ InFragment(s.iter)
            /\ \A i \in DOMAIN s.body : StmtInFragment(s.body[i])
      [] OTHER -> FALSE

ModuleInFragment(body) == \A i \in DOMAIN body : StmtInFragment(body[i])

\* the bindings with name bound to v
Bind(env, name, v) == [n \in DOMAIN env \cup {name} |-> IF n = name THEN v ELSE env[n]]

RECURSIVE RefStmts(_, _), RefFor(_, _, _, _)
\* the statements run in order from st = [env, out, ok, last]: the global
\* bindings, the output, whether no error was raised, and the value of the
\* last expression statement
RefStmts(stmts, st) ==
    IF stmts = <<>> \/ ~st.ok THEN st
    ELSE LET s == Head(stmts)
             Failed == [st EXCEPT !.ok = FALSE]
         IN  RefStmts(Tail(stmts),
                CASE s.k = "AssignStmt" ->
                        LET v == RefExpr(s.value, st.env) IN
                        IF v = RefError THEN Failed
                        ELSE [st EXCEPT !.env = Bind(@, s.target.id, v)]
                  [] s.k = "ExprStmt" ->
                        LET v == RefExpr(s.expr, st.env) IN
                        IF v = RefError THEN Failed ELSE [st EXCEPT !.last = v]
                  [] s.k = "PrintStmt" ->
                        LET vs == [i \in DOMAIN s.values |-> RefExpr(s.values[i], st.env)] IN
                        IF \E i \in DOMAIN vs : vs[i] = RefError THEN Failed
                        ELSE [st EXCEPT !.out = @ \o JoinStrings([i \in DOMAIN vs |->
                                                                    Render(vs[i])], <<" ">>)
                                                  \o <<"\n">>]
                  [] s.k = "IfStmt" ->
                        LET v == RefExpr(s.test, st.env) IN
                        IF v = RefError THEN Failed
                        ELSE RefStmts(IF RefTruthy(v) THEN s.body ELSE s.orelse, st)
                  [] s.k = "ForStmt" ->
                        LET v == RefExpr(s.iter, st.env) IN
                        CASE v = RefError -> Failed
                          [] v.t = "list" -> RefFor(s, v.elems, 1, st)
                          [] v.t = "str" ->
                                RefFor(s, [i \in 1..Len(v.v) |-> PyString(<<v.v[i]>>)], 1, st)
                          [] OTHER -> Failed
                  [] OTHER -> st)

\* the body of for statement s once for each of elems from the i-th on
RefFor(s, elems, i, st) ==
    IF i > Len(elems) \/ ~st.ok THEN st
    ELSE RefFor(s, elems, i + 1,
                RefStmts(s.body, [st EXCEPT !.env = Bind(@, s.target.id, elems[i])]))

\* the module run from the empty state
RefModule(body) ==
    RefStmts(body, [env |-> <<>>, out |-> <<>>, ok |-> TRUE, last |-> PyNone])

RECURSIVE RefOf(_, _)
\* a value of the VM as a value of the reference: a list with its elements
RefOf(v, h) ==
    IF v.t = "list" THEN RefList([i \in 1..Len(h[v.ref].elems) |-> RefOf(h[v.ref].elems[i], h)])
    ELSE v

\* the VM's globals hold what the reference binds
SameBindings(env) ==
    /\ DOMAIN globals = DOMAIN env
    /\ \A n \in DOMAIN env : RefOf(globals[n], heap) = env[n]

(***************************************************************************)
(* Vocabulary of the properties                                            *)
(***************************************************************************)
\* Run is in its loop and has not returned
Running == pc = "loop" /\ outcome = ""

\* the run is over: Run returned a value or an error, or the process died
Terminated == pc = "loop" /\ outcome # ""

\* the index of the first instruction after the code of the module's first k
\* statements
StmtEnd(k) ==
    Len(compile("compileStmts", NewCompiler(0), <<SubSeq(module, 1, k)>>).instructions)

\* the module frame is the only frame and is about to execute an instruction
\* of the module's k-th statement
AtStmt(k) ==
    /\ Running
    /\ Len(frames) = 1
    /\ frames[1].ip >= StmtEnd(k - 1)
    /\ frames[1].ip < StmtEnd(k)

\* the instruction the current frame is about to execute
NextInstruction ==
    LET frame == frames[Len(frames)] IN frame.code.instructions[frame.ip + 1]

(***************************************************************************)
(* The compiler and the VM on modules that are built as nodes              *)
(***************************************************************************)
\* a program as a text and the statement nodes appended to what the parser
\* returns for it
AstProgram(src, nodes) == [src |-> src, nodes |-> nodes]

\* the programs that execute one literal twice, each followed by a store
\* into the container a is bound to; and parsed programs with literals
AstPrograms ==
    [i \in 1..(MaxN + 1) |->
        AstProgram(FreshListSource(N(i - 1)), <<StoreSubscriptNode(0)>>)]
    \o [i \in 1..(MaxN + 1) |->
        AstProgram(FreshInLoopSource(<<W("["), N(i - 1), W(","), N(i - 1), W("]")>>),
                   <<StoreSubscriptNode(1)>>)]
    \o [i \in 1..(MaxN + 1) |->
        AstProgram(FreshInLoopSource(<<W("{"), N(1), W(":"), N(i - 1), W("}")>>),
                   <<StoreSubscriptNode(1)>>)]
    \o [i \in 1..(MaxN + 1) |->
        AstProgram(FreshInLoopSource(<<W("{"), N(i - 1), W(":"), N(i - 1), W("}")>>),
                   <<StoreSubscriptNode(9)>>)]
    \o [i \in 1..Len(DictLiteralSources) |-> AstProgram(DictLiteralSources[i], <<>>)]
    \o << AstProgram(ForListSource, <<>>), AstProgram(SubscriptReadSource, <<>>),
          AstProgram(SumOfSquaresSource, <<>>) >>

\* compiler.Compile on a module that was not parsed from a text
InitAst ==
    \E i \in DOMAIN AstPrograms :
        /\ source = <<>>
        /\ tokens = <<>>
        /\ pc = "compile"
        /\ module = Parse(AllTokens(AstPrograms[i].src)).node \o AstPrograms[i].nodes
        /\ code = NoCode
        /\ frames = <<>>
        /\ globals = <<>>
        /\ builtins = NewVM
        /\ firstRun = NoRun
        /\ bytecode = NoFile
        /\ heap = <<>>
        /\ out = <<>>
        /\ outcome = ""
        /\ result = GoNil
        /\ err = NoErr
        /\ lexer = NewLexer(<<>>)

NextAst == CompileModule \/ RunEnter \/ RunStep

SpecAst == InitAst /\ [][NextAst]_vars

\* a loop over the list a is bound to, then a following statement
LoopOverNameSource(n) ==
    << L(0, <<W("a"), W("="), W("["), N(1), W(","), N(2), W(","), n, W("]")>>),
       L(0, <<W("for"), W("x"), W("in"), W("a"), W(":")>>),
       L(4, <<W("print"), W("x")>>),
       L(0, <<W("print"), N(99)>>) >>

\* a loop whose body runs a while loop and calls a function that loops
LoopAroundLoopsSource(n) ==
    << L(0, <<W("def"), W("f"), W("("), W("m"), W(")"), W(":")>>),
       L(4, <<W("for"), W("j"), W("in"), W("range"), W("("), W("m"), W(")"), W(":")>>),
       L(8, <<W("print"), W("j")>>),
       L(4, <<W("return"), W("m")>>),
       L(0, <<W("for"), W("x"), W("in"), W("range"), W("("), n, W(")"), W(":")>>),
       L(4, <<W("y"), W("="), W("f"), W("("), W("x"), W(")")>>),
       L(4, <<W("while"), W("y"), W(">"), N(0), W(":")>>),
       L(8, <<W("y"), W("-="), N(1)>>),
       L(0, <<W("print"), N(99)>>) >>

\* the for loops whose bodies run to their end: the texts above, and loops
\* over a named list whose body, built as nodes, ends with a store into
\* that list (body: the nodes appended to the body of the second statement)
LoopPrograms ==
    [i \in DOMAIN LoopSources |-> [src |-> LoopSources[i], body |-> <<>>]]
    \o [i \in 1..(MaxN + 1) |-> [src |-> LoopAroundLoopsSource(N(i - 1)), body |-> <<>>]]
    \o [i \in 1..3 |-> [src |-> LoopOverNameSource(N(3)), body |-> <<StoreSubscriptNode(i - 1)>>]]
    \o << [src |-> LoopOverNameSource(N(3)), body |-> <<>>] >>

\* the module of a loop program
LoopModule(program) ==
    LET m == Parse(AllTokens(program.src)).node IN
    IF program.body = <<>> THEN m ELSE [m EXCEPT ![2].body = @ \o program.body]

\* compiler.Compile has returned the code object of a loop program
InitLoops ==
    \E i \in DOMAIN LoopPrograms :
        /\ source = <<>>
        /\ tokens = <<>>
        /\ pc = "run"
        /\ module = LoopModule(LoopPrograms[i])
        /\ code = CodeObject(Compile(LoopModule(LoopPrograms[i])), 0, "<module>")
        /\ frames = <<>>
        /\ globals = <<>>
        /\ builtins = NewVM
        /\ firstRun = NoRun
        /\ bytecode = NoFile
        /\ heap = <<>>
        /\ out = <<>>
        /\ outcome = ""
        /\ result = GoNil
        /\ err = NoErr
        /\ lexer = NewLexer(<<>>)

NextRun == RunEnter \/ RunStep

\* the process runs on: Run is entered, and its loop takes the next
\* iteration as long as there is one
SpecLoops == InitLoops /\ [][NextRun]_vars /\ WF_vars(RunEnter) /\ WF_vars(RunStep)

(***************************************************************************)
(* C1: if with an else                                                     *)
(***************************************************************************)
\* the module's k-th statement is an if with an else or elif clause
IsIfElse(k) == module[k].k = "IfStmt" /\ Len(module[k].orelse) > 0

\* C1: when the if-body of a module-level if statement with an else (or elif)
\* clause has run, the JUMP_FORWARD that ends it resumes at the first
\* instruction after the else-body, so that the statements after the if
\* statement run next.
C1_JumpForwardResumesAfterElse ==
    [][\A k \in DOMAIN module :
          (AtStmt(k) /\ IsIfElse(k) /\ NextInstruction.op = "JUMP_FORWARD")
              => (Len(frames') = 1 /\ frames'[1].ip = StmtEnd(k))]_vars

\* C1: the if-body has run and its closing JUMP_FORWARD is next
C1_IfBodyDone ==
    \E k \in DOMAIN module :
        AtStmt(k) /\ IsIfElse(k) /\ NextInstruction.op = "JUMP_FORWARD" /\ out # <<>>

(***************************************************************************)
(* C2: assignment to a subscript                                           *)
(***************************************************************************)
\* the token vector holds `] =`: a statement that assigns to a subscript
HasSubscriptStore(toks) ==
    \E p \in 1..(Len(toks) - 1) : toks[p].type = "RBRACKET" /\ toks[p + 1].type = "ASSIGN"

\* C2: a statement `c[k] = v` is accepted by the parser, as an assignment
\* whose target is a Subscript.
C2_SubscriptStoreParses ==
    HasSubscriptStore(tokens) =>
        /\ outcome # "parse_error"
        /\ pc \in {"compile", "run", "loop"} =>
              \E k \in DOMAIN module :
                  module[k].k = "AssignStmt" /\ module[k].target.k = "Subscript"

\* C2: the parser has been given a program with `c[k] = v`
C2_SubscriptStoreGiven == HasSubscriptStore(tokens) /\ pc = "parse"

(***************************************************************************)
(* C3: the output of print                                                 *)
(***************************************************************************)
\* the module only assigns and prints, and prints a string somewhere
PrintsStrings ==
    /\ ModuleInFragment(module)
    /\ \A k \in DOMAIN module : module[k].k \in {"AssignStmt", "PrintStmt"}
    /\ \E k \in DOMAIN module :
          module[k].k = "PrintStmt" /\ \E i \in DOMAIN module[k].values :
                                            module[k].values[i].k = "Str"

\* C3: when a module of assignments and prints has run, the output is, line
\* by line, the rendered values joined by single spaces and ended by a
\* newline, a string rendered inside double quotes.
C3_PrintQuotesStrings ==
    (Terminated /\ PrintsStrings) => (outcome = "value" /\ out = RefModule(module).out)

\* C3: a print of a string has run to the end
C3_StringPrinted == Terminated /\ PrintsStrings /\ outcome = "value" /\ out # <<>>

(***************************************************************************)
(* C4: for loops                                                           *)
(***************************************************************************)
RECURSIVE OnlyLoops(_)
\* stmts are assignments, prints, expressions, pass and for loops of such
OnlyLoops(stmts) ==
    \A i \in DOMAIN stmts :
        \/ stmts[i].k \in {"AssignStmt", "PrintStmt", "ExprStmt", "PassStmt"}
        \/ stmts[i].k = "ForStmt" /\ OnlyLoops(stmts[i].body)

\* seq is the beginning of whole
IsPrefix(seq, whole) == Len(seq) <= Len(whole) /\ seq = SubSeq(whole, 1, Len(seq))

\* the module has a for loop at the top level, consists of loops and simple
\* statements, raises no error and prints no string
ForProgram ==
    /\ ModuleInFragment(module)
    /\ OnlyLoops(module)
    /\ \E k \in DOMAIN module : module[k].k = "ForStmt"
    /\ RefModule(module).ok
    /\ \A i \in DOMAIN RefModule(module).out : RefModule(module).out[i] # "\""

BoolOpProgram ==
    /\ module # <<>>
    /\ ModuleInFragment(module)
    /\ \/ module[1].k = "ExprStmt" /\ module[1].expr.k = "BoolOp"
       \/ module[1].k = "AssignStmt" /\ module[1].value.k = "BoolOp"

\* that boolean expression
BoolOpExpr == IF module[1].k = "ExprStmt" THEN module[1].expr ELSE module[1].value

\* the index of the first instruction after the code of the expression
BoolOpEnd == Len(compile("compileExpr", NewCompiler(0), <<BoolOpExpr>>).instructions)

\* C5: `A and B` yields A, with B not evaluated, when A is falsy and else the
\* value of B; `A or B` yields A, with B not evaluated, when A is truthy and
\* else the value of B.  When the code of the expression is through, exactly
\* that one value is on the stack; the run ends with it as the result (or as
\* the global assigned), and ends in a name error only if an operand that had
\* to be evaluated is undefined (`False and undefined_name` raises none).
C5_BoolOpShortCircuits ==
    BoolOpProgram =>
        LET v == RefExpr(BoolOpExpr, <<>>) IN
        /\ (Running /\ Len(frames) = 1 /\ frames[1].ip = BoolOpEnd)
              => (v # RefError /\ frames[1].stack = <<v>>)
        /\ Terminated =>
              IF v = RefError
              THEN outcome = "error" /\ err.msg = "name 'undefined_name' is not defined"
              ELSE /\ outcome = "value"
                   /\ module[1].k = "ExprStmt" => result = v
                   /\ module[1].k = "AssignStmt" => globals[module[1].target.id] = v

\* C5: `A and B` with a falsy A and an undefined B has ended with A's value
C5_UndefinedOperandSkipped ==
    /\ BoolOpProgram
    /\ Terminated
    /\ module[1].k = "ExprStmt"
    /\ BoolOpExpr.op = "and"
    /\ Len(BoolOpExpr.values) = 2
    /\ BoolOpExpr.values[1].k = "NameConstant"
    /\ BoolOpExpr.values[2].k = "Name" /\ BoolOpExpr.values[2].id = "undefined_name"
    /\ outcome = "value"
    /\ result = PyBool(FALSE)

(***************************************************************************)
(* C6: the result of Run                                                   *)
(***************************************************************************)
\* the module's final top-level statement is an expression statement
EndsWithExpr == module # <<>> /\ module[Len(module)].k = "ExprStmt"

C7_ErrorEndsRun ==
    [][/\ (Running /\ outcome' = "error")
              => (err' # NoErr /\ out' = out /\ globals' = globals)
       /\ (pc = "loop" /\ err # NoErr)
              => UNCHANGED <<frames, globals, builtins, heap, out, outcome, result, err>>]_vars

\* C7: a callee has raised an error after output was written, with
\* instructions left to run in its frame and in its caller's
C7_ErrorInCallee ==
    /\ Terminated
    /\ outcome = "error"
    /\ err # NoErr
    /\ Len(frames) >= 2
    /\ out # <<>>
    /\ \A i \in DOMAIN frames : frames[i].ip < Len(frames[i].code.instructions)

(***************************************************************************)
(* C8: failures and the host                                               *)
(***************************************************************************)
\* C8: no failure of a run ends the process with a host-level panic: popping
\* an empty value stack, a value stack or a frame array outgrown, all come
\* back from Run as an error value.
C8_NoHostPanic == outcome # "panic"

\* C8: a callee's frame has run past the end of its code without returning
\* a value to the caller that waits for one
C8_CalleeRanPastEnd ==
    /\ Running
    /\ Len(frames) >= 2
    /\ frames[Len(frames)].ip >= Len(frames[Len(frames)].code.instructions)

(***************************************************************************)
(* C9: the locals of a function                                            *)
(***************************************************************************)
RECURSIVE AssignedNames(_)
\* the names the statements assign: targets of =, += and -=, and of for
AssignedNames(stmts) ==
    UNION {LET s == stmts[i] IN
           CASE s.k \in {"AssignStmt", "AugAssignStmt"} ->
                    IF s.target.k = "Name" THEN {s.target.id} ELSE {}
             [] s.k = "ForStmt" ->
                    (IF s.target.k = "Name" THEN {s.target.id} ELSE {})
                        \cup AssignedNames(s.body)
             [] s.k = "IfStmt" -> AssignedNames(s.body) \cup AssignedNames(s.orelse)
             [] s.k = "WhileStmt" -> AssignedNames(s.body)
             [] OTHER -> {} : i \in DOMAIN stmts}

\* the locals of function definition f: its parameters and every name
\* assigned anywhere in its body
LocalNames(f) == {f.args[i] : i \in DOMAIN f.args} \cup AssignedNames(f.body)

\* C9: in the code of a function, no instruction that reads or writes a
\* global (LOAD_GLOBAL, LOAD_NAME, STORE_GLOBAL, STORE_NAME) names a
\* parameter or a name assigned anywhere in the function's body: those are
\* reached through LOAD_FAST / STORE_FAST only.
C9_LocalsUseFastSlots ==
    pc \in {"run", "loop"} =>
        \A k \in DOMAIN module : \A j \in DOMAIN code.consts :
            (/\ module[k].k = "FuncDef"
             /\ code.consts[j].t = "function"
             /\ code.consts[j].name = module[k].name)
                => LET f == code.consts[j].code IN
                   \A i \in DOMAIN f.instructions :
                       f.instructions[i].op \in {"LOAD_GLOBAL", "LOAD_NAME", "STORE_GLOBAL",
                                                 "STORE_NAME"}
                           => f.names[f.instructions[i].arg + 1] \notin LocalNames(module[k])

\* C9: a function that reads a name above the assignment that makes it a
\* local has been compiled
C9_ReadAboveAssignment ==
    /\ pc = "run"
    /\ \E k \in DOMAIN module :
          /\ module[k].k = "FuncDef"
          /\ Len(module[k].body) >= 2
          /\ module[k].body[1].k = "AssignStmt"
          /\ module[k].body[1].value.k = "Name"
          /\ module[k].body[1].value.id \in AssignedNames(Tail(module[k].body))

(***************************************************************************)
(* C10: one local vector and value stack per invocation                    *)
(***************************************************************************)
RECURSIVE Factorial(_)
Factorial(n) == IF n <= 1 THEN 1 ELSE n * Factorial(n - 1)

\* the e2e test's program: def factorial, result = factorial(n), print result
IsFactorialProgram ==
    Len(module) = 3 /\ module[1].k = "FuncDef" /\ module[1].name = "factorial"

\* op is the instruction the current frame is about to execute
IsNext(op) ==
    /\ Running
    /\ Len(frames) >= 1
    /\ frames[Len(frames)].ip < Len(frames[Len(frames)].code.instructions)
    /\ NextInstruction.op = op

\* C10: every invocation of a user function has its own locals and value
\* stack.  No step changes a frame under the current one (so a callee's
\* STORE_FAST never reaches another frame's locals); a call of a user
\* function starts the callee on an empty stack with the arguments as its
\* first locals, and takes only the function and the arguments off the
\* caller's stack; RETURN_VALUE leaves the caller's locals as they were and
\* its stack as the call left it, with the result pushed.  So factorial(n)
\* prints n!, 120 for 5.
C10_FramesAreIsolated ==
    [][LET n == Len(frames)
           m == Len(frames')
       IN  /\ Running => \A i \in 1..(n - 1) : i < m => frames'[i] = frames[i]
           /\ (IsNext("CALL_FUNCTION") /\ m = n + 1) =>
                 LET argc == NextInstruction.arg
                     st == frames[n].stack
                 IN  /\ frames'[n].locals = frames[n].locals
                     /\ frames'[n].stack = SubSeq(st, 1, Len(st) - argc - 1)
                     /\ frames'[m].stack = <<>>
                     /\ \A i \in DOMAIN frames'[m].locals :
                           frames'[m].locals[i] = IF i <= argc THEN st[Len(st) - argc + i]
                                                  ELSE PyNone
           /\ (IsNext("RETURN_VALUE") /\ n >= 2 /\ outcome' = "") =>
                 /\ m = n - 1
                 /\ frames'[m].locals = frames[m].locals
                 /\ frames'[m].ip = frames[m].ip
                 /\ frames'[m].stack = Append(frames[m].stack,
                                              frames[n].stack[Len(frames[n].stack)])
           /\ (Terminated /\ IsFactorialProgram)' =>
                 (/\ outcome = "value"
                  /\ out = Itoa(Factorial(module[2].value.args[1].n)) \o <<"\n">>)']_vars

\* C10: a recursive function is three frames deep, the two invocations with
\* different locals, and the inner one is about to return
C10_RecursionReturning ==
    /\ IsNext("RETURN_VALUE")
    /\ Len(frames) >= 3
    /\ frames[Len(frames)].code = frames[Len(frames) - 1].code
    /\ frames[Len(frames)].locals # frames[Len(frames) - 1].locals
    /\ frames[Len(frames) - 1].stack # <<>>

(***************************************************************************)
(* C11: == and != across variants                                          *)
(***************************************************************************)
\* the value a literal expression stands for
LiteralValue(e) ==
    CASE e.k = "Num" -> IF IsFloatNum(e) THEN PyFloat(e.f.n, e.f.d) ELSE PyInt(e.n)
      [] e.k = "Str" -> PyString(e.s)
      [] OTHER -> IF e.value = "NONE" THEN PyNone ELSE PyBool(e.value = "TRUE")

IsLiteral(e) == e.k \in {"Num", "Str", "NameConstant"}

\* the module is one comparison `a == b` or `a != b` of two literals
IsEqualityProgram ==
    /\ Len(module) = 1
    /\ module[1].k = "ExprStmt"
    /\ module[1].expr.k = "Compare"
    /\ Len(module[1].expr.ops) = 1
    /\ module[1].expr.ops[1] \in {"==", "!="}
    /\ IsLiteral(module[1].expr.left)
    /\ IsLiteral(module[1].expr.right[1])

\* equality as stated: an integer and a float by numeric value after
\* promotion, other values of different variants unequal
PromotedEqual(a, b) ==
    IF {a.t, b.t} \subseteq {"int", "float"} THEN FloatOf(a) = FloatOf(b)
    ELSE a.t = b.t /\ a = b

\* C11: `a == b` of two literals is true exactly when they are of one
\* variant and equal, or an integer and a float of the same numeric value
\* (`1 == 1.0` is true, `True == 1` is false); `a != b` is the negation.
C11_EqualityPromotesNumbers ==
    (Terminated /\ IsEqualityProgram) =>
        LET e == module[1].expr
            eq == PromotedEqual(LiteralValue(e.left), LiteralValue(e.right[1]))
        IN  outcome = "value" /\ result = PyBool(IF e.ops[1] = "==" THEN eq ELSE ~eq)

\* C11: `1 == 1.0` has been evaluated
C11_IntFloatCompared ==
    /\ Terminated
    /\ IsEqualityProgram
    /\ module[1].expr.ops[1] = "=="
    /\ LiteralValue(module[1].expr.left) = PyInt(1)
    /\ LiteralValue(module[1].expr.right[1]) = PyFloat(1, 1)
    /\ outcome = "value"

\* C11: `True == 1` has been evaluated to False
C11_BoolIntUnequal ==
    /\ Terminated
    /\ IsEqualityProgram
    /\ module[1].expr.ops[1] = "=="
    /\ LiteralValue(module[1].expr.left) = PyBool(TRUE)
    /\ LiteralValue(module[1].expr.right[1]) = PyInt(1)
    /\ result = PyBool(FALSE)

(***************************************************************************)
(* C12: a dict literal keeps the order of its pairs                        *)
(***************************************************************************)
\* the module is `d = {k1: v1, ..., kn: vn}` over literals, a print of d,
\* and d as the trailing expression
IsDictLiteralProgram ==
    /\ Len(module) = 3
    /\ module[1].k = "AssignStmt"
    /\ module[1].value.k = "Dict"
    /\ \A i \in DOMAIN module[1].value.keys :
          IsLiteral(module[1].value.keys[i]) /\ IsLiteral(module[1].value.values[i])
    /\ module[2].k = "PrintStmt"
    /\ module[3].k = "ExprStmt"

\* the rendered keys of the literal, in source order
LiteralKeys ==
    [i \in DOMAIN module[1].value.keys |-> String(LiteralValue(module[1].value.keys[i]), <<>>)]

\* the dict the literal denotes: each key once, at the place of its first
\* occurrence, with the value of its last occurrence
LiteralDict ==
    LET ks == LiteralKeys
        First(i) == \A j \in 1..(i - 1) : ks[j] # ks[i]
        Last(k) == CHOOSE i \in DOMAIN ks : ks[i] = k /\ \A j \in (i + 1)..Len(ks) : ks[j] # k
        RECURSIVE Ordered(_)
        Ordered(i) == IF i > Len(ks) THEN <<>>
                      ELSE (IF First(i) THEN <<ks[i]>> ELSE <<>>) \o Ordered(i + 1)
    IN  [t |-> "dict", keys |-> Ordered(1),
         pairs |-> [k \in {ks[i] : i \in DOMAIN ks} |->
                        LiteralValue(module[1].value.values[Last(k)])]]

\* C12: the dict built from a literal lists its keys in source order (a
\* repeated key at its first place), stores for a repeated key the value
\* of its last occurrence, and is rendered with its pairs in that order.
C12_DictLiteralKeepsOrder ==
    (Terminated /\ IsDictLiteralProgram) =>
        /\ outcome = "value"
        /\ result.t = "dict"
        /\ heap[result.ref] = LiteralDict
        /\ out = String(PyDict(1), <<LiteralDict>>) \o <<"\n">>

\* C12: a literal with a repeated key has been built and printed
C12_RepeatedKeyBuilt ==
    /\ Terminated
    /\ IsDictLiteralProgram
    /\ outcome = "value"
    /\ Len(LiteralDict.keys) = 2
    /\ LiteralKeys[1] = LiteralKeys[3]
    /\ out # <<>>

\* C12: a literal of three different keys has been built
C12_DistinctKeysBuilt ==
    /\ Terminated
    /\ IsDictLiteralProgram
    /\ outcome = "value"
    /\ Len(heap[result.ref].keys) = 3

(***************************************************************************)
(* C13: + on two lists                                                     *)
(***************************************************************************)
\* the module is `numbers = []`, a loop over range(n) whose body is
\* `numbers = numbers + [i * 2]`, and `numbers` as the trailing expression
IsListAppendProgram ==
    /\ Len(module) = 3
    /\ module[1].k = "AssignStmt"
    /\ module[1].value = [k |-> "List", elts |-> <<>>]
    /\ module[2].k = "ForStmt"
    /\ module[2].iter.k = "Call"
    /\ Len(module[2].body) = 1
    /\ module[2].body[1].k = "AssignStmt"
    /\ module[2].body[1].value.k = "BinaryOp"
    /\ module[2].body[1].value.op = "+"
    /\ module[2].body[1].value.right.k = "List"
    /\ module[3].k = "ExprStmt"

\* C13: the loop `numbers = numbers + [i * 2]` over range(n), started from
\* the empty list, ends without a runtime error with numbers the list of
\* the n values 0, 2, ..., in the order they were added.
C13_ListConcatenationAppends ==
    (Terminated /\ IsListAppendProgram) =>
        /\ outcome = "value"
        /\ result.t = "list"
        /\ heap[result.ref].elems = [i \in 1..module[2].iter.args[1].n |-> PyInt(2 * (i - 1))]

\* C13: `numbers + [i * 2]` has been evaluated in a loop of at least one
\* pass
C13_ConcatenationEvaluated ==
    /\ Terminated
    /\ IsListAppendProgram
    /\ module[2].iter.args[1].n > 0

(***************************************************************************)
(* C14: the end of the token vector                                        *)
(***************************************************************************)
\* only spaces, tabs and carriage returns, then possibly a comment
IsBlankText(cs) ==
    \E k \in 0..Len(cs) :
        /\ \A j \in 1..k : cs[j] \in {" ", "\t", "\r"}
        /\ k = Len(cs) \/ cs[k + 1] = "#"

\* the text the lexer has not read yet
Unread == SubSeq(lexer.src, lexer.position + 1, Len(lexer.src))

\* the lexer has come to the end of the input: nothing is left of the text
\* but blank material without a newline
AtEndOfInput ==
    /\ pc = "tokens"
    /\ IsBlankText(Unread)
    /\ \A j \in DOMAIN Unread : Unread[j] # "\n"

TokenTypes == [i \in DOMAIN tokens |-> tokens[i].type]

\* the indentation levels that are open: pushed, and no DEDENT emitted for
\* them yet
OpenLevels == Len(lexer.indentStack) - 1 + lexer.pendingDedents

\* what bounds the iterations AllTokens has left: the unread characters, and
\* the DEDENTs owed for levels popped or still open
Remaining ==
    2 * (Len(lexer.src) - lexer.position) + lexer.pendingDedents + Len(lexer.indentStack)

\* the returned vector ends with its only EOF token, with the indentation
\* stack [0]
EndsWithOnlyEof ==
    /\ TokenTypes[Len(tokens)] = "EOF"
    /\ \A i \in 1..(Len(tokens) - 1) : TokenTypes[i] # "EOF"
    /\ lexer.indentStack = <<0>>

\* C14: AllTokens terminates (every iteration but the last one lowers
\* Remaining, a natural number) and the vector it returns ends with its
\* only EOF token, emitted with the indentation stack [0]; from the end of
\* the input on each token is a DEDENT that closes one open level, until
\* none is open and EOF is emitted.
C14_EofClosesOpenLevels ==
    [][/\ pc = "tokens" =>
            /\ Len(tokens') = Len(tokens) + 1
            /\ Remaining >= 0
            /\ pc' = "lexed" \/ Remaining' < Remaining
       /\ pc' = "lexed" => EndsWithOnlyEof'
       /\ AtEndOfInput =>
            IF OpenLevels > 0
            THEN /\ TokenTypes'[Len(tokens')] = "DEDENT"
                 /\ OpenLevels' = OpenLevels - 1
                 /\ AtEndOfInput'
            ELSE /\ TokenTypes'[Len(tokens')] = "EOF"
                 /\ pc' = "lexed"]_vars

\* C14: a text that ends two levels deep has been closed by two DEDENTs
C14_TwoLevelsClosed ==
    /\ pc = "lexed"
    /\ Len(tokens) >= 3
    /\ TokenTypes[Len(tokens) - 1] = "DEDENT"
    /\ TokenTypes[Len(tokens) - 2] = "DEDENT"
    /\ lexer.pendingDedents = 0
    /\ lexer.position = Len(lexer.src)
    /\ lexer.src[Len(lexer.src)] = ":"

(***************************************************************************)
(* C15: INDENT and DEDENT tokens balance                                   *)
(***************************************************************************)
CountOf(type) == Cardinality({i \in DOMAIN tokens : TokenTypes[i] = type})

\* C15: the token vector AllTokens returns holds as many DEDENT tokens as
\* INDENT tokens.
C15_DedentsEqualIndents ==
    pc = "lexed" => CountOf("DEDENT") = CountOf("INDENT")

\* C15: a text with a line indented less than its block, at no open level,
\* has been tokenised
C15_IndentationErrorLexed ==
    /\ pc = "lexed"
    /\ \E i \in DOMAIN tokens :
          tokens[i].type = "ILLEGAL" /\ tokens[i].lexeme = "indentation error"

\* C15: a text of nested blocks without an indentation error has been
\* tokenised
C15_NestedBlocksLexed ==
    /\ pc = "lexed"
    /\ CountOf("INDENT") = 2
    /\ CountOf("ILLEGAL") = 0

(***************************************************************************)
(* C16: blank lines                                                        *)
(***************************************************************************)
\* the lexer is at the start of a blank line that ends with a newline:
\* whitespace only, or whitespace and a comment
BlankLineAhead ==
    /\ pc = "tokens"
    /\ lexer.atLineStart
    /\ lexer.pendingDedents = 0
    /\ \E e \in DOMAIN Unread :
          /\ Unread[e] = "\n"
          /\ \A j \in 1..(e - 1) : Unread[j] # "\n"
          /\ IsBlankText(SubSeq(Unread, 1, e - 1))

\* C16: at the start of a blank line the next token is none of INDENT,
\* DEDENT and ILLEGAL, and the indentation stack stays as it is.
C16_BlankLineKeepsIndentation ==
    [][BlankLineAhead =>
            /\ TokenTypes'[Len(tokens')] \notin {"INDENT", "DEDENT", "ILLEGAL"}
            /\ lexer'.indentStack = lexer.indentStack]_vars

\* C16: the lexer is at a blank line inside an indented block
C16_BlankLineInBlock ==
    /\ BlankLineAhead
    /\ Len(lexer.indentStack) > 1

(***************************************************************************)
(* C17: a trailing comma                                                   *)
(***************************************************************************)
IsSym(word, texts) == word.kind = "sym" /\ word.text \in texts

\* word i of the line is a comma right before a closing bracket
IsTrailingComma(words, i) ==
    /\ IsSym(words[i], {","})
    /\ i < Len(words)
    /\ IsSym(words[i + 1], {"]", "}", ")"})

RECURSIVE WithoutTrailingCommas(_, _)
\* the words of a line from word i on, the trailing commas left out
WithoutTrailingCommas(words, i) ==
    IF i > Len(words) THEN <<>>
    ELSE (IF IsTrailingComma(words, i) THEN <<>> ELSE <<words[i]>>)
            \o WithoutTrailingCommas(words, i + 1)

\* the program has a trailing comma, and of which bracket
HasTrailingComma(close) ==
    \E n \in DOMAIN source : \E i \in DOMAIN source[n].words :
        IsTrailingComma(source[n].words, i) /\ IsSym(source[n].words[i + 1], {close})

\* the program with its trailing commas left out
SourceWithoutTrailingCommas ==
    [n \in DOMAIN source |-> L(source[n].indent, WithoutTrailingCommas(source[n].words, 1))]

\* Parse has returned
Parsed == pc \notin {"lex", "parse"} \/ outcome = "parse_error"

\* C17: a program with a comma before a closing `]`, `}` or `)` of a list,
\* a dict or a call parses, and to the module that the same program without
\* that comma parses to.
C17_TrailingCommaAccepted ==
    (Parsed /\ \E close \in {"]", "}", ")"} : HasTrailingComma(close)) =>
        /\ outcome # "parse_error"
        /\ module = Parse(AllTokens(SourceWithoutTrailingCommas)).node

\* C17: a list and a dict with a trailing comma have been parsed
C17_ListCommaParsed ==
    /\ Parsed
    /\ HasTrailingComma("]")
    /\ ~HasTrailingComma(")")
    /\ outcome # "parse_error"
    /\ module[1].value.k = "List"

\* C17: a call with a trailing comma has been given to the parser
C17_CallCommaGiven ==
    /\ Parsed
    /\ HasTrailingComma(")")

(***************************************************************************)
(* C18: comparison chains                                                  *)
(***************************************************************************)
\* the module is the definition of v and a chain `v(a) op1 v(b) op2 v(c)`
\* over literals as its trailing expression
IsCompareChainProgram ==
    /\ Len(module) = 2
    /\ module[1].k = "FuncDef"
    /\ module[2].k = "ExprStmt"
    /\ module[2].expr.k = "Compare"
    /\ module[2].expr.left.k = "Call"
    /\ Len(module[2].expr.right) = 2
    /\ \A i \in 1..2 : module[2].expr.right[i].k = "Call"

\* one comparison operator applied to two values
ApplyCompare(op, left, right) ==
    CASE op = "==" -> [ok |-> TRUE, value |-> PyBool(Equal(left, right, <<>>))]
      [] op = "!=" -> [ok |-> TRUE, value |-> PyBool(~Equal(left, right, <<>>))]
      [] OTHER -> compareOp(left, right, op)

\* what a value prints as, with the newline of print
Printed(v) == String(v, <<>>) \o <<"\n">>

\* C18: `v(a) op1 v(b) op2 v(c)` is one Compare node with two operators and
\* two right operands, and runs as `(a op1 b) op2 c`: a and b are evaluated,
\* op1 is applied to them, then c is evaluated and op2 is applied to the
\* result of op1 and c, each operand being evaluated once; an operator that
\* fails ends the run there.
C18_ChainIsLeftAssociative ==
    (Terminated /\ IsCompareChainProgram) =>
        LET e == module[2].expr
            a == LiteralValue(e.left.args[1])
            b == LiteralValue(e.right[1].args[1])
            c == LiteralValue(e.right[2].args[1])
            first == ApplyCompare(e.ops[1], a, b)
            second == ApplyCompare(e.ops[2], first.value, c)
        IN  /\ Len(e.ops) = 2
            /\ IF ~first.ok
               THEN outcome = "error" /\ err.msg = first.msg /\ out = Printed(a) \o Printed(b)
               ELSE /\ out = Printed(a) \o Printed(b) \o Printed(c)
                    /\ IF second.ok THEN outcome = "value" /\ result = second.value
                       ELSE outcome = "error" /\ err.msg = second.msg

\* C18: the chain `1 < 2 == True` has been evaluated to True
C18_ChainEvaluated ==
    /\ Terminated
    /\ IsCompareChainProgram
    /\ module[2].expr.ops = <<"<", "==">>
    /\ LiteralValue(module[2].expr.left.args[1]) = PyInt(1)
    /\ LiteralValue(module[2].expr.right[1].args[1]) = PyInt(2)
    /\ result = PyBool(TRUE)
    /\ Len(out) = 9

(***************************************************************************)
(* C19: operator precedence                                                *)
(***************************************************************************)
\* the text is `print e` followed by an expression that holds a bracket and
\* starts with a parenthesis, a prefix operator or a number
IsPrecedenceSource ==
    /\ Len(source) = 2
    /\ Len(source[1].words) > 1
    /\ IsSym(source[1].words[1], {"print"})
    /\ \E i \in DOMAIN source[2].words : IsSym(source[2].words[i], {"(", "["})
    /\ IsSym(source[2].words[1], {"(", "-", "not"}) \/ source[2].words[1].kind = "num"

\* the second line is a minus sign before a call or a subscript
IsSignedPostfixSource ==
    /\ IsPrecedenceSource
    /\ IsSym(source[2].words[1], {"-"})
    /\ IsSym(source[2].words[2], {"len", "["})

\* the nodes of the spec's three examples
IntNum(n) == [k |-> "Num", n |-> n]
BinaryOpNode(left, op, right) == [k |-> "BinaryOp", left |-> left, op |-> op, right |-> right]

\* C19: an expression written without parentheses parses to the tree of
\* its grouping by the ladder or < and < not < comparison, in < + - <
\* * / % < unary + - < call, subscript < atom, with binary arithmetic
\* nesting to the left, parentheses deciding where they are written; a
\* sign before a call or a subscript applies to the result of the call or
\* the subscript; both texts evaluate to the same value, and 2 + 3 * 4 is
\* 14, (2 + 3) * 4 is 20 and 2 * 3 + 4 is 10.
C19_PrecedenceLadder ==
    (Parsed /\ IsPrecedenceSource) =>
        /\ outcome # "parse_error"
        /\ Len(module) = 2
        /\ module[1].k = "PrintStmt"
        /\ module[2].k = "ExprStmt"
        /\ module[1].values = <<module[2].expr>>
        /\ IsSignedPostfixSource =>
              /\ module[2].expr.k = "UnaryOp"
              /\ module[2].expr.expr.k \in {"Call", "Subscript"}
              /\ Terminated => outcome = "value" /\ result = PyInt(-2)
        /\ Terminated =>
              /\ outcome = "value" => out = Printed(result)
              /\ module[2].expr = BinaryOpNode(IntNum(2), "+",
                                       BinaryOpNode(IntNum(3), "*", IntNum(4)))
                    => outcome = "value" /\ result = PyInt(14)
              /\ module[2].expr = BinaryOpNode(BinaryOpNode(IntNum(2), "+", IntNum(3)),
                                       "*", IntNum(4))
                    => outcome = "value" /\ result = PyInt(20)
              /\ module[2].expr = BinaryOpNode(BinaryOpNode(IntNum(2), "*", IntNum(3)),
                                       "+", IntNum(4))
                    => outcome = "value" /\ result = PyInt(10)

\* C19: `10 - 4 - 3` has been parsed as (10 - 4) - 3 and evaluated to 3
C19_SubtractionNestsLeft ==
    /\ Terminated
    /\ IsPrecedenceSource
    /\ Len(source[1].words) = 6
    /\ module[1].values = <<BinaryOpNode(BinaryOpNode(IntNum(10), "-", IntNum(4)),
                                         "-", IntNum(3))>>
    /\ result = PyInt(3)
    /\ out = <<"3", "\n">>

\* C19: `2 + 3 * 4` has been evaluated to 14
C19_ProductBindsTighter ==
    /\ Terminated
    /\ IsPrecedenceSource
    /\ Len(source[1].words) = 6
    /\ module[1].values = <<BinaryOpNode(IntNum(2), "+",
                                         BinaryOpNode(IntNum(3), "*", IntNum(4)))>>
    /\ result = PyInt(14)

(***************************************************************************)
(* C20: integer division and remainder                                     *)
(***************************************************************************)
\* an integer literal, or a minus sign applied to one
IsSigned(e) ==
    \/ e.k = "Num" /\ ~IsFloatNum(e)
    \/ e.k = "UnaryOp" /\ e.op = "-" /\ e.expr.k = "Num" /\ ~IsFloatNum(e.expr)

SignedValue(e) == IF e.k = "UnaryOp" THEN -e.expr.n ELSE e.n

\* the expression is `a / b` or `a % b` over written integers
IsDivMod(e) ==
    /\ e.k = "BinaryOp"
    /\ e.op \in {"/", "%"}
    /\ IsSigned(e.left)
    /\ IsSigned(e.right)

\* the module is `a / b` or `a % b` as the trailing expression
IsDivModProgram ==
    /\ Len(module) = 1
    /\ module[1].k = "ExprStmt"
    /\ IsDivMod(module[1].expr)

\* the module is `(a / b) * b + a % b == a` as the trailing expression
IsDivModIdentityProgram ==
    /\ Len(module) = 1
    /\ module[1].k = "ExprStmt"
    /\ module[1].expr.k = "Compare"
    /\ module[1].expr.ops = <<"==">>
    /\ module[1].expr.left.k = "BinaryOp"
    /\ module[1].expr.left.op = "+"
    /\ module[1].expr.left.left.k = "BinaryOp"
    /\ module[1].expr.left.left.op = "*"
    /\ IsDivMod(module[1].expr.left.left.left)
    /\ module[1].expr.left.left.left.op = "/"
    /\ IsDivMod(module[1].expr.left.right)
    /\ module[1].expr.left.right.op = "%"

\* the quotient of a by b truncated toward zero: the integer of the largest
\* absolute value whose product with b does not pass a
Quotient(a, b) ==
    CHOOSE q \in -Abs(a)..Abs(a) :
        /\ Abs(q) * Abs(b) <= Abs(a)
        /\ Abs(a) - Abs(q) * Abs(b) < Abs(b)
        /\ q > 0 => (a > 0) = (b > 0)
        /\ q < 0 => (a > 0) # (b > 0)

\* the remainder of the host language: smaller than b in absolute value and
\* of the sign of a
Remainder(a, b) ==
    CHOOSE r \in -Abs(b)..Abs(b) :
        /\ Abs(r) < Abs(b)
        /\ r > 0 => a > 0
        /\ r < 0 => a < 0
        /\ \E q \in -Abs(a)..Abs(a) : q * b + r = a

\* C20: for integers a and b with b not 0, `a / b` is the quotient
\* truncated toward zero, `a % b` is the remainder of the sign of a, and
\* (a / b) * b + a % b == a is True; with b = 0 each of `a / b` and `a % b`
\* makes Run return an error, with no result and nothing pushed in place of
\* the two operands.
C20_DivisionTruncates ==
    /\ (Terminated /\ IsDivModProgram) =>
          LET e == module[1].expr
              a == SignedValue(e.left)
              b == SignedValue(e.right)
          IN  IF b = 0
              THEN /\ outcome = "error"
                   /\ result = GoNil
                   /\ frames[Len(frames)].stack = <<>>
              ELSE /\ outcome = "value"
                   /\ result = PyInt(IF e.op = "/" THEN Quotient(a, b) ELSE Remainder(a, b))
                   /\ Quotient(a, b) * b + Remainder(a, b) = a
    /\ (Terminated /\ IsDivModIdentityProgram) =>
          IF SignedValue(module[1].expr.left.right.right) = 0
          THEN outcome = "error" /\ result = GoNil
          ELSE outcome = "value" /\ result = PyBool(TRUE)

\* C20: `-3 / 2` has been evaluated to -1
C20_NegativeQuotient ==
    /\ Terminated
    /\ IsDivModProgram
    /\ module[1].expr.op = "/"
    /\ SignedValue(module[1].expr.left) = -3
    /\ SignedValue(module[1].expr.right) = 2
    /\ result = PyInt(-1)

\* C20: `-3 % 2` has been evaluated to -1
C20_NegativeRemainder ==
    /\ Terminated
    /\ IsDivModProgram
    /\ module[1].expr.op = "%"
    /\ SignedValue(module[1].expr.left) = -3
    /\ SignedValue(module[1].expr.right) = 2
    /\ result = PyInt(-1)

\* C20: `3 % 0` has ended the run in an error
C20_ModuloByZero ==
    /\ Terminated
    /\ IsDivModProgram
    /\ module[1].expr.op = "%"
    /\ SignedValue(module[1].expr.left) = 3
    /\ SignedValue(module[1].expr.right) = 0
    /\ outcome = "error"

(***************************************************************************)
(* C21: GET_ITER                                                           *)
(***************************************************************************)
\* the value on top of the current frame's stack
TopOfStack == frames[Len(frames)].stack[Len(frames[Len(frames)].stack)]

\* the module is a for loop over something that is neither a string, a
\* list nor a call
IsNotIterableProgram ==
    /\ Len(module) = 2
    /\ module[1].k = "ForStmt"
    /\ module[1].iter.k \in {"Num", "NameConstant", "Dict", "Name"}

\* C21: GET_ITER replaces a string on top of the stack by a new list of
\* its one-character strings in order, leaves a list where it is, the same
\* object with the same elements, and for any other value ends the run in
\* the runtime error "... object is not iterable"; the body of a loop over
\* such a value is never executed.
C21_GetIterMaterializes ==
    [][/\ (IsNext("GET_ITER") /\ frames[Len(frames)].stack # <<>>) =>
             LET n == Len(frames)
                 st == frames[n].stack
                 top == TopOfStack
             IN  CASE top.t = "str" ->
                        /\ outcome' = ""
                        /\ Len(frames'[n].stack) = Len(st)
                        /\ SubSeq(frames'[n].stack, 1, Len(st) - 1) = SubSeq(st, 1, Len(st) - 1)
                        /\ TopOfStack'.t = "list"
                        /\ TopOfStack'.ref \notin DOMAIN heap
                        /\ heap'[TopOfStack'.ref].elems
                              = [i \in 1..Len(top.v) |-> PyString(<<top.v[i]>>)]
                        /\ \A r \in DOMAIN heap : heap'[r] = heap[r]
                   [] top.t = "list" ->
                        /\ outcome' = ""
                        /\ frames'[n].stack = st
                        /\ heap' = heap
                   [] OTHER ->
                        /\ outcome' = "error"
                        /\ err'.msg = "OpGetIter: '" \o top.t \o "' object is not iterable"
                        /\ result' = result
                        /\ out' = out
                        /\ Len(frames') = n
       /\ (Terminated /\ IsNotIterableProgram)' => (outcome = "error" /\ out = <<>>)']_vars

\* C21: the loop over "aba" is about to read its second character
C21_StringMaterialized ==
    /\ IsNext("FOR_ITER")
    /\ frames[1].stack # <<>>
    /\ TopOfStack.t = "list"
    /\ heap[TopOfStack.ref].elems = <<PyString(<<"a">>), PyString(<<"b">>), PyString(<<"a">>)>>
    /\ out = <<"7", "\n">>

\* C21: the loop over 42 has ended the run in the error
C21_IntegerRejected ==
    /\ Terminated
    /\ IsNotIterableProgram
    /\ module[1].iter = [k |-> "Num", n |-> 42]
    /\ outcome = "error"

\* C21: the loop over the list held by xs is running on that list
C21_ListKeptAsIs ==
    /\ IsNext("FOR_ITER")
    /\ "xs" \in DOMAIN globals
    /\ TopOfStack = globals["xs"]
    /\ out # <<>>

(***************************************************************************)
(* C22: CALL_FUNCTION on what cannot be called                             *)
(***************************************************************************)
\* the callee of the CALL_FUNCTION n the current frame is about to execute
Callee ==
    LET st == frames[Len(frames)].stack IN st[Len(st) - NextInstruction.arg]

\* the current frame is about to execute CALL_FUNCTION with the callee and
\* the arguments on its stack
IsNextCall ==
    /\ IsNext("CALL_FUNCTION")
    /\ Len(frames[Len(frames)].stack) > NextInstruction.arg

\* C22: CALL_FUNCTION n on a callee that is neither a built-in nor a user
\* function ends the run in the runtime error "'X' object is not callable",
\* X the callee's type; on a user function of another number of parameters
\* than n it ends the run in the runtime error "function takes p arguments
\* but n were given".  Neither pushes a frame nor a result; a user function
\* called with its number of arguments gets a new frame.
C22_BadCallIsAnError ==
    [][IsNextCall =>
         LET n == NextInstruction.arg IN
         CASE Callee.t = "function" /\ Callee.code.argcount = n ->
                outcome' = "" /\ Len(frames') = Len(frames) + 1
           [] Callee.t = "function" ->
                /\ outcome' = "error"
                /\ err'.msg = "function takes " \o ToString(Callee.code.argcount)
                                  \o " arguments but " \o ToString(n) \o " were given"
                /\ Len(frames') = Len(frames)
                /\ result' = result
                /\ out' = out
           [] Callee.t = "builtin_function_or_method" -> Len(frames') = Len(frames)
           [] OTHER ->
                /\ outcome' = "error"
                /\ err'.msg = "'" \o Callee.t \o "' object is not callable"
                /\ Len(frames') = Len(frames)
                /\ result' = result
                /\ out' = out]_vars

\* C22: a function of two parameters has been called with one argument
C22_TooFewArguments ==
    /\ Terminated
    /\ outcome = "error"
    /\ err.msg = "function takes 2 arguments but 1 were given"
    /\ Len(frames) = 1
    /\ out = <<>>

\* C22: an integer has been called inside a function
C22_IntegerCalledInFunction ==
    /\ Terminated
    /\ outcome = "error"
    /\ err.msg = "'int' object is not callable"
    /\ Len(frames) = 3

(***************************************************************************)
(* C23: the tables of names                                                *)
(***************************************************************************)
\* C23: the built-ins table is the one NewVM made, whatever runs; the
\* globals table changes only in a step that executes STORE_NAME or
\* STORE_GLOBAL, and then only in the binding of the instruction's name,
\* which becomes the value on top of the stack.  So STORE_FAST,
\* STORE_SUBSCR and CALL_FUNCTION leave the global bindings as they are,
\* and a global called `len` leaves the built-in `len` in its table.
C23_OnlyStoreNameWritesGlobals ==
    [][/\ builtins' = builtins
       /\ builtins' = NewVM
       /\ globals' # globals =>
             /\ IsNext("STORE_NAME") \/ IsNext("STORE_GLOBAL")
             /\ frames[Len(frames)].stack # <<>>
             /\ LET frame == frames[Len(frames)]
                    name == frame.code.names[NextInstruction.arg + 1]
                IN  /\ DOMAIN globals' = DOMAIN globals \cup {name}
                    /\ globals'[name] = TopOfStack
                    /\ \A n \in DOMAIN globals \ {name} : globals'[n] = globals[n]]_vars

\* C23: the run is over, a global `len` is 5, and a local `str` has been 3
\* in a call
C23_BuiltinShadowed ==
    /\ Terminated
    /\ outcome = "value"
    /\ "len" \in DOMAIN globals
    /\ globals["len"] = PyInt(5)
    /\ "str" \notin DOMAIN globals
    /\ builtins["len"] = PyBuiltin("len")
    /\ result.t = "list"
    /\ heap[result.ref].elems = <<PyInt(3), PyInt(5)>>

(***************************************************************************)
(* C24: containers are built, never pooled                                 *)
(***************************************************************************)
RECURSIVE NoContainerConsts(_)
\* the constant pool of a code object, and of the code object of every
\* function in it, holds no list and no dict
NoContainerConsts(c) ==
    \A i \in DOMAIN c.consts :
        /\ c.consts[i].t \in {"int", "float", "str", "bool", "NoneType", "function"}
        /\ c.consts[i].t = "function" => NoContainerConsts(c.consts[i].code)

\* the module ends with the store `a[...] = 7` after a, b and c are bound
IsFreshLiteralProgram ==
    /\ module # <<>>
    /\ module[Len(module)].k = "AssignStmt"
    /\ module[Len(module)].target.k = "Subscript"

\* the values a list or dict of the heap holds
ValuesOf(v) ==
    IF v.t = "list" THEN {heap[v.ref].elems[i] : i \in DOMAIN heap[v.ref].elems}
    ELSE {heap[v.ref].pairs[k] : k \in DOMAIN heap[v.ref].pairs}

\* C24: a compiled code object has no list and no dict in any constant
\* pool.  BUILD_LIST and BUILD_DICT push a container that did not exist
\* before the step and leave every existing container as it was; a store
\* into a container changes that container only.  So when one literal has
\* been executed twice, b bound to the first container and a and c to the
\* second, `a[...] = 7` shows through c, which is the same container, and
\* not through b.
C24_LiteralsAreBuiltFresh ==
    [][/\ pc' = "run" => NoContainerConsts(code')
       /\ ((IsNext("BUILD_LIST") \/ IsNext("BUILD_DICT")) /\ outcome' = "") =>
             /\ TopOfStack'.t = IF IsNext("BUILD_LIST") THEN "list" ELSE "dict"
             /\ TopOfStack'.ref \notin DOMAIN heap
             /\ \A r \in DOMAIN heap : heap'[r] = heap[r]
       /\ (IsNext("STORE_SUBSCR") /\ Len(frames[Len(frames)].stack) >= 3) =>
             LET st == frames[Len(frames)].stack
                 container == st[Len(st) - 1]
             IN  /\ DOMAIN heap' = DOMAIN heap
                 /\ \A r \in DOMAIN heap : r # container.ref => heap'[r] = heap[r]
       /\ (Terminated /\ IsFreshLiteralProgram)' =>
             (/\ outcome = "value"
              /\ globals["a"].ref # globals["b"].ref
              /\ globals["c"] = globals["a"]
              /\ PyInt(7) \in ValuesOf(globals["c"])
              /\ PyInt(7) \notin ValuesOf(globals["b"])
              /\ ValuesOf(globals["b"]) # {})']_vars

\* C24: the list of the second call of make() has been stored into, and
\* the list of the first call still holds 2
C24_SecondListMutated ==
    /\ Terminated
    /\ IsFreshLiteralProgram
    /\ module[1].k = "FuncDef"
    /\ heap[globals["a"].ref].elems = <<PyInt(7)>>
    /\ heap[globals["b"].ref].elems = <<PyInt(2)>>

\* C24: a key has been added to the dict the second pass of the loop built
C24_SecondDictMutated ==
    /\ Terminated
    /\ IsFreshLiteralProgram
    /\ globals["a"].t = "dict"
    /\ heap[globals["a"].ref].keys = <<<<"2">>, <<"9">>>>
    /\ heap[globals["b"].ref].keys = <<<<"2">>>>

(***************************************************************************)
(* C25: equality and rendering                                             *)
(***************************************************************************)
\* the operands of the comparison that is executed next
LeftOperand == frames[Len(frames)].stack[Len(frames[Len(frames)].stack) - 1]
RightOperand == TopOfStack

IsNextEquality ==
    /\ IsNext("COMPARE_EQ") \/ IsNext("COMPARE_NE")
    /\ Len(frames[Len(frames)].stack) >= 2
    /\ LeftOperand.t # "nil"
    /\ RightOperand.t # "nil"

\* C25: Equal is reflexive, and two values that compare equal have the
\* same rendering: whenever == or != is about to compare two values, each
\* is equal to itself, and if they are equal to each other their String()
\* is the same.
C25_EqualValuesRenderAlike ==
    IsNextEquality =>
        /\ Equal(LeftOperand, LeftOperand, heap)
        /\ Equal(RightOperand, RightOperand, heap)
        /\ Equal(LeftOperand, RightOperand, heap) =>
              String(LeftOperand, heap) = String(RightOperand, heap)

\* C25: Equal is reflexive on the operands of every comparison, dicts
\* included
C25_EqualIsReflexive ==
    IsNextEquality =>
        /\ Equal(LeftOperand, LeftOperand, heap)
        /\ Equal(RightOperand, RightOperand, heap)

\* C25: two dicts of the same pairs in different insertion order are about
\* to be compared
C25_EqualDictsCompared ==
    /\ IsNextEquality
    /\ LeftOperand.t = "dict"
    /\ RightOperand.t = "dict"
    /\ Equal(LeftOperand, RightOperand, heap)
    /\ heap[LeftOperand.ref].keys # heap[RightOperand.ref].keys

\* C25: the program has printed True for a == b and then two different
\* lines for a and b
C25_EqualDictsPrintedDifferently ==
    /\ Terminated
    /\ Len(module) = 5
    /\ {"a", "b"} \subseteq DOMAIN globals
    /\ globals["a"].t = "dict"
    /\ globals["b"].t = "dict"
    /\ out = <<"T", "r", "u", "e", "\n">>
              \o String(globals["a"], heap) \o <<"\n">>
              \o String(globals["b"], heap) \o <<"\n">>
    /\ String(globals["a"], heap) # String(globals["b"], heap)

(***************************************************************************)
(* C26: a code object runs the same way every time                         *)
(***************************************************************************)
RECURSIVE CodeObjectsOf(_)
\* a code object and the code objects of the functions in its constants
CodeObjectsOf(c) ==
    {c} \cup UNION {CodeObjectsOf(c.consts[i].code) :
                      i \in {j \in DOMAIN c.consts : c.consts[j].t = "function"}}

C26_SecondRunFailed ==
    /\ firstRun.done
    /\ Terminated
    /\ outcome = "error"
    /\ out # <<>>

(***************************************************************************)
(* C27: the bytecode file gives back the code object                       *)
(***************************************************************************)
\* C27: every code object the compiler returns is serialized without an
\* error, and what is deserialized from the file is the code object that
\* was written: the same instructions, constants (the code objects of
\* functions and None included), names, local names, argument count and
\* name.
C27_BytecodeRoundTrips ==
    [][/\ (pc = "run" /\ pc' \notin {"run", "loop"}) =>
            /\ pc' = "written"
            /\ bytecode'.type = "CodeObject"
       /\ pc = "written" =>
            /\ pc' = "run"
            /\ code' = code
            /\ outcome' = ""]_vars

\* C27: a code object with a function, None and zero among its constants
\* has been read back from a file that leaves the zero values out
C27_FunctionReadBack ==
    /\ pc = "run"
    /\ bytecode # NoFile
    /\ \E c \in ConstantsOf(code) : c.t = "function"
    /\ PyNone \in ConstantsOf(code)
    /\ PyInt(0) \in ConstantsOf(code)

\* C27: a program read back from its file has run to its value
C27_ReadBackProgramRan ==
    /\ Terminated
    /\ bytecode # NoFile
    /\ outcome = "value"
    /\ out # <<>>

(***************************************************************************)
(* C28: errors of the parser and of the compiler and their line            *)
(***************************************************************************)
\* the module's second statement is a for loop whose target is not a name
IsBadForTargetProgram ==
    /\ Len(module) = 2
    /\ module[2].k = "ForStmt"
    /\ module[2].target.k # "Name"

\* C28: an error of the parser or of the compiler carries the number of
\* a line of the source.
C28_ErrorsCarryTheLine ==
    outcome \in {"parse_error", "compile_error"} => err.line \in 1..(Len(source) + 1)

\* C28: every error of the parser carries the number of a line of the
\* source
C28_ParseErrorsCarryTheLine ==
    outcome = "parse_error" => err.line \in 1..(Len(source) + 1)

\* C28: the compiler has rejected `for 3 in [1]:`, which the parser accepts
C28_ForTargetRejected ==
    /\ outcome = "compile_error"
    /\ IsBadForTargetProgram
    /\ module[2].target.k = "Num"
    /\ err.msg = "unsupported for target"
    /\ err.line = 0

\* C28: the parser has rejected `for in in [1]:` with the line of the loop
C28_ParseErrorOnLineTwo ==
    /\ outcome = "parse_error"
    /\ Len(source) = 3
    /\ IsSym(source[2].words[2], {"in"})
    /\ err.line = 2

(***************************************************************************)
(* C29: the value stack                                                    *)
(***************************************************************************)
\* the module frame is the only frame and is about to execute the first
\* instruction of a top-level statement, or the code after the last one
BetweenStatements ==
    /\ Running
    /\ Len(frames) = 1
    /\ \E k \in 0..Len(module) : frames[1].ip = StmtEnd(k)

\* C29: no frame's value stack is popped while it is empty, and the module
\* frame's value stack is empty whenever a top-level statement is about
\* to start: every statement leaves the stack as deep as it found it.
C29_StackNeverUnderflows ==
    /\ ~(outcome = "panic" /\ err.msg = "stack underflow")
    /\ BetweenStatements => frames[1].stack = <<>>

\* C29: the module frame's value stack is empty between top-level
\* statements
C29_EmptyBetweenStatements ==
    BetweenStatements => frames[1].stack = <<>>

\* C29: PRINT_EXPR is about to pop the value of a call that has pushed
\* none: the stack of the module frame is empty
C29_PopOfEmptyStack ==
    /\ IsNext("PRINT_EXPR")
    /\ Len(frames) = 1
    /\ frames[1].stack = <<>>

\* C29: a for loop over a list has ended and the next top-level statement
\* starts on an empty stack
C29_LoopLeftStackEmpty ==
    /\ BetweenStatements
    /\ \E k \in 1..(Len(module) - 1) :
          /\ frames[1].ip = StmtEnd(k)
          /\ module[k].k = "ForStmt"
    /\ out # <<>>
    /\ frames[1].stack = <<>>

(***************************************************************************)
(* C30: how a frame is left                                                *)
(***************************************************************************)
\* the instruction pointer of the running frame is an index of its code
IpInsideCode ==
    (Running /\ frames # <<>>) =>
        frames[Len(frames)].ip \in 0..(Len(frames[Len(frames)].code.instructions) - 1)

\* C30: the instruction pointer of the running frame is always the index
\* of an instruction of the frame's code, whatever jumps were taken, and
\* the frame stack gets shorter only by executing RETURN_VALUE: Run never
\* pops a frame because its instructions ran out.
C30_FrameLeftOnlyByReturn ==
    [][/\ IpInsideCode
       /\ IpInsideCode'
       /\ Len(frames') < Len(frames) => IsNext("RETURN_VALUE")]_vars

\* C30: the frame stack gets shorter only by RETURN_VALUE or by the frame
\* running out of instructions
C30_FrameLeftByReturnOrFallOff ==
    [][Len(frames') < Len(frames) =>
          \/ IsNext("RETURN_VALUE")
          \/ (Running /\ ~IpInsideCode)]_vars

\* C30: the module frame's instruction pointer is past the end of the
\* module's code after the jump that ends an if-body
C30_ModuleRanPastEnd ==
    /\ Running
    /\ Len(frames) = 1
    /\ frames[1].ip > Len(code.instructions)
    /\ out # <<>>

\* C30: a function has been left by RETURN_VALUE and the module goes on
C30_ReturnedToModule ==
    /\ Running
    /\ Len(frames) = 1
    /\ IpInsideCode
    /\ frames[1].ip > 0
    /\ code.instructions[frames[1].ip].op = "CALL_FUNCTION"
    /\ frames[1].stack # <<>>
    /\ TopOfStack.t = "int"

(***************************************************************************)
(* C31: RETURN_VALUE                                                       *)
(***************************************************************************)
\* RETURN_VALUE is next and the frame has a value to return
IsNextReturn ==
    /\ IsNext("RETURN_VALUE")
    /\ frames[Len(frames)].stack # <<>>

\* the running frame is at the RETURN_VALUE the compiler appends to every
\* function body
IsImplicitReturn ==
    /\ IsNextReturn
    /\ Len(frames) > 1
    /\ frames[Len(frames)].ip = Len(frames[Len(frames)].code.instructions) - 1

C31_ImplicitReturnInNestedCall ==
    /\ IsImplicitReturn
    /\ Len(frames) = 3

(***************************************************************************)
(* C32: the frame of a call                                                *)
(***************************************************************************)
\* CALL_FUNCTION n is next on a user function of n parameters
IsNextUserCall ==
    /\ IsNextCall
    /\ Callee.t = "function"
    /\ Callee.code.argcount = NextInstruction.arg
    /\ Len(frames) < MaxFrames

\* C32: CALL_FUNCTION n on a user function of n parameters takes the n
\* arguments and the callee off the caller's stack and pushes one frame
\* on the frame stack: the callee's code at instruction 0, an empty value
\* stack, and one local per local name, the first n holding the
\* arguments in call order and the others None.  Nothing else changes.
C32_CallPushesOneFrame ==
    [][IsNextUserCall =>
          LET n == Len(frames)
              argc == NextInstruction.arg
              st == frames[n].stack
              callee == Callee
          IN  /\ frames' =
                    [i \in 1..(n + 1) |->
                        CASE i < n -> frames[i]
                          [] i = n -> [frames[n] EXCEPT
                                          !.ip = @ + 1,
                                          !.stack = SubSeq(st, 1, Len(st) - argc - 1)]
                          [] OTHER ->
                                [code |-> callee.code, ip |-> 0, stack |-> <<>>,
                                 locals |->
                                    [j \in 1..Len(callee.code.varnames) |->
                                        IF j <= argc THEN st[Len(st) - argc + j] ELSE PyNone]]]
              /\ outcome' = ""
              /\ UNCHANGED <<globals, heap, out, result, err>>]_vars

\* C32: f(2, 1) has just been called under `1 +`: the new frame has the
\* arguments in its first two locals and None in the other two, and the
\* caller keeps the 1
C32_FrameOfTwoArguments ==
    /\ Running
    /\ Len(frames) = 2
    /\ frames[2].ip = 0
    /\ frames[2].stack = <<>>
    /\ frames[2].locals = <<PyInt(2), PyInt(1), PyNone, PyNone>>
    /\ frames[2].code.varnames = <<"a", "b", "c", "d">>
    /\ frames[1].stack = <<PyInt(1)>>

(***************************************************************************)
(* C33: the frames a run leaves in its VM                                  *)
(***************************************************************************)
\* Run has returned, with a value or with an error
RunReturned == pc = "loop" /\ outcome \in {"value", "error"}

\* C33: whenever Run returns, with a value or with an error, the VM holds no
\* frame, and every frame of a run executes the code object the run was given
\* or the code of a function of it.
C33_NoFrameOutlivesItsRun ==
    /\ RunReturned => frames = <<>>
    /\ pc = "loop" => \A i \in 1..Len(frames) : frames[i].code \in CodeObjectsOf(code)

\* C33, what holds: a run that returns a value leaves no frame when the VM
\* held none as it began.
C33_NoFrameLeftAfterValueInNewVM ==
    (RunReturned /\ outcome = "value" /\ ~firstRun.done) => frames = <<>>

\* C33, the case: the first line failed, and the run of the second line,
\* an assignment, has printed.
C33_LeftoverFrameResumed ==
    /\ firstRun.done
    /\ firstRun.outcome = "error"
    /\ pc = "loop"
    /\ source = ReplLines[2]
    /\ out = <<"N", "o", "n", "e", "\n">>

\* C33, the case of a run that leaves no frame: a line that returned a value
\* after a line that returned a value.
C33_SecondLineAfterValue ==
    /\ firstRun.done
    /\ firstRun.outcome = "value"
    /\ RunReturned
    /\ outcome = "value"
    /\ frames = <<>>
    /\ out = <<"1", "\n">>
(***************************************************************************)
(* C34: two definitions of one name                                        *)
(***************************************************************************)
\* the program of case c has run to its end and each call has printed what
\* the body of the definition before it returns
EachDefRanItsBody(c) ==
    (source = TwoDefsSource(c) /\ Terminated) =>
        /\ outcome = "value"
        /\ out = Printed(PyInt(c.a)) \o Printed(PyInt(c.b))

\* C34: when one scope has two definitions, also of the same name, the call
\* after each definition runs the body of that definition.
C34_EachDefLoadsItsOwnBody ==
    \A i \in DOMAIN TwoDefsCases : EachDefRanItsBody(TwoDefsCases[i])

\* C34, what holds: the same when the two names differ.
C34_DefsOfTwoNamesLoadTheirBodies ==
    \A i \in DOMAIN TwoDefsCases :
        TwoDefsCases[i].first # TwoDefsCases[i].second => EachDefRanItsBody(TwoDefsCases[i])

\* C34, the case: f is defined to return 1, called, defined again to return
\* 2 and called again, and the second call has printed 1.
C34_SecondDefRanFirstBody ==
    /\ source = TwoDefsSource(TwoDefsCases[1])
    /\ Terminated
    /\ out = <<"1", "\n", "1", "\n">>
    /\ Len(code.consts) = 2

\* C34, the case of two names: f and g have each printed their own value.
C34_TwoNamesRan ==
    /\ source = TwoDefsSource(TwoDefsCases[4])
    /\ Terminated
    /\ out = <<"1", "\n", "2", "\n">>
(***************************************************************************)
(* C35: a definition inside a function                                     *)
(***************************************************************************)
IsNestedDefProgram == \E i \in DOMAIN NestedDefSources : source = NestedDefSources[i]

\* the global binding of the inner name is a function
InnerIsGlobalFunction ==
    /\ "inner" \in DOMAIN globals
    /\ globals["inner"].t = "function"

\* C35: a def inside a function body neither creates nor overwrites a global
\* binding of its name: in a program whose only def of `inner` is inside
\* `outer`, no global `inner` is ever a function.
C35_NestedDefBindsNoGlobal == IsNestedDefProgram => ~InnerIsGlobalFunction

\* C35, what holds: the parameters of the two functions are bound in their
\* frames and never become globals.
C35_ParametersBindNoGlobal ==
    IsNestedDefProgram => {"a", "b"} \cap DOMAIN globals = {}

\* C35, the case: the enclosing call has returned and the module has called
\* the inner function by its name.
C35_InnerCalledFromModule ==
    /\ source = NestedDefSources[1]
    /\ Terminated
    /\ outcome = "value"
    /\ out = <<"3", "\n", "6", "\n">>

\* C35, the case of an overwritten global: the module bound `inner` to 7, and
\* after the call of `outer` its `inner + 1` has failed on a function.
C35_GlobalOverwritten ==
    /\ source = NestedDefSources[3]
    /\ Terminated
    /\ outcome = "error"
    /\ InnerIsGlobalFunction
    /\ out = <<"3", "\n">>
(***************************************************************************)
(* C36: a line indented less than the open block                           *)
(***************************************************************************)
\* the spaces and tabs the unread text begins with, and what the lexer
\* counts them as: a space 1, a tab 8
LeadingBlanks == Span(Unread, 0, {" ", "\t"})
IndentAhead ==
    Cardinality({j \in 1..LeadingBlanks : Unread[j] = " "})
        + 8 * Cardinality({j \in 1..LeadingBlanks : Unread[j] = "\t"})

\* the lexer is at the start of a line that handleIndentation does not take
\* for blank
LineOfCodeAhead ==
    /\ pc = "tokens"
    /\ lexer.atLineStart
    /\ lexer.pendingDedents = 0
    /\ LeadingBlanks < Len(Unread)
    /\ Unread[LeadingBlanks + 1] \notin {"\n", "#"}

TopIndent == lexer.indentStack[Len(lexer.indentStack)]

\* the levels of the indentation stack that equal the indentation ahead
LevelsAhead == {k \in DOMAIN lexer.indentStack : lexer.indentStack[k] = IndentAhead}

\* the token NextToken has just returned
LastToken == tokens[Len(tokens)]

\* C36: at a line of code indented less than the top of the indentation
\* stack, the lexer pops the levels above the one that equals the new
\* indentation and the next tokens are one DEDENT for each of them, emitted
\* before anything of the line is read; when no level equals the new
\* indentation the next token is ILLEGAL "indentation error".
C36_DedentPerPoppedLevel ==
    [][/\ (LineOfCodeAhead /\ IndentAhead < TopIndent) =>
            IF LevelsAhead # {}
            THEN LET k == CHOOSE j \in LevelsAhead : TRUE IN
                 /\ LastToken'.type = "DEDENT"
                 /\ lexer'.indentStack = SubSeq(lexer.indentStack, 1, k)
                 /\ lexer'.pendingDedents = Len(lexer.indentStack) - k - 1
                 /\ lexer'.position = lexer.position + LeadingBlanks
            ELSE /\ LastToken'.type = "ILLEGAL"
                 /\ LastToken'.lexeme = "indentation error"
       /\ (pc = "tokens" /\ lexer.pendingDedents > 0) =>
            /\ LastToken'.type = "DEDENT"
            /\ lexer'.pendingDedents = lexer.pendingDedents - 1
            /\ lexer'.indentStack = lexer.indentStack
            /\ lexer'.position = lexer.position]_vars

\* C36, the case: a line at indentation 0 after lines at 1 and 2 has given
\* two DEDENTs, and its first character is still unread.
C36_TwoLevelsPopped ==
    /\ pc = "tokens"
    /\ Len(tokens) >= 2
    /\ LastToken.type = "DEDENT"
    /\ tokens[Len(tokens) - 1].type = "DEDENT"
    /\ lexer.indentStack = <<0>>
    /\ lexer.pendingDedents = 0
    /\ Unread # <<>>
    /\ Unread[1] = "a"

\* C36, the case of no matching level: a line at indentation 1 after a line
\* at 2 has given the indentation error.
C36_NoLevelMatches ==
    /\ pc = "tokens"
    /\ tokens # <<>>
    /\ LastToken.type = "ILLEGAL"
    /\ LastToken.lexeme = "indentation error"
    /\ lexer.indentStack = <<0>>
    /\ Unread # <<>>
    /\ Unread[1] = "a"
(***************************************************************************)
(* C37: the indentation stack                                              *)
(***************************************************************************)
\* the indentation stack is not empty, has 0 at its bottom and increases
\* strictly from bottom to top
IndentStackIncreases ==
    /\ Len(lexer.indentStack) >= 1
    /\ lexer.indentStack[1] = 0
    /\ \A k \in 1..(Len(lexer.indentStack) - 1) :
          lexer.indentStack[k] < lexer.indentStack[k + 1]

\* C37: in every state of the lexer the indentation stack is non-empty, has
\* 0 at its bottom and is strictly increasing; at a line of code indented
\* deeper than the top, with a space counted 1 and a tab 8, the lexer pushes
\* that one level and the next token is the one INDENT of the line: no
\* DEDENT is owed and no token after it on the line is an INDENT.
C37_StackIncreasesOneLevelPerLine ==
    /\ []IndentStackIncreases
    /\ [][/\ (LineOfCodeAhead /\ IndentAhead > TopIndent) =>
                /\ LastToken'.type = "INDENT"
                /\ lexer'.indentStack = Append(lexer.indentStack, IndentAhead)
                /\ lexer'.pendingDedents = 0
                /\ ~lexer'.atLineStart
                /\ lexer'.position = lexer.position + LeadingBlanks
          /\ (pc = "tokens" /\ ~lexer.atLineStart) => LastToken'.type # "INDENT"]_vars

\* C37, the case: a line that begins with a tab, after a line at
\* indentation 0, has pushed the one level 8 and given one INDENT.
C37_TabPushedOneLevel ==
    /\ pc = "tokens"
    /\ tokens # <<>>
    /\ LastToken.type = "INDENT"
    /\ CountOf("INDENT") = 1
    /\ lexer.indentStack = <<0, 8>>
    /\ lexer.position > 1
    /\ lexer.src[lexer.position] = "\t"

\* C37, the case of three levels: lines at 1, 2 and 8 have each pushed one.
C37_ThreeLevelsPushed ==
    /\ pc = "tokens"
    /\ lexer.indentStack = <<0, 1, 2, 8>>
    /\ CountOf("INDENT") = 3
(***************************************************************************)
(* C38: where INDENT and DEDENT tokens stand                               *)
(***************************************************************************)
IndentationTypes == {"INDENT", "DEDENT"}

\* token i stands at the start of a logical line: only INDENT and DEDENT
\* tokens are between it and the NEWLINE before it or the start of the
\* input; or it belongs to the closure at the end of the input
AtStartOfLogicalLine(i) ==
    LET before == {j \in 1..(i - 1) : TokenTypes[j] \notin IndentationTypes} IN
    \/ before = {}
    \/ TokenTypes[CHOOSE j \in before : \A k \in before : k <= j] = "NEWLINE"
    \/ \A j \in (i + 1)..Len(tokens) : TokenTypes[j] \in {"DEDENT", "EOF"}

IndentationTokensStartLines ==
    \A i \in DOMAIN tokens : TokenTypes[i] \in IndentationTypes => AtStartOfLogicalLine(i)

\* a newline character of the text stands inside a string literal (the
\* texts quote with `"` and escape no quote)
RawNewlineInString ==
    \E j \in DOMAIN lexer.src :
        /\ lexer.src[j] = "\n"
        /\ Cardinality({i \in 1..(j - 1) : lexer.src[i] = "\""}) % 2 = 1

\* C38: in the token vector AllTokens returns, every INDENT and DEDENT is
\* among the first tokens after a NEWLINE, at the start of the input, or in
\* the closure at the end of the input, also when a string literal holds a
\* newline character.
C38_IndentationOnlyAtLineStart ==
    pc = "lexed" => IndentationTokensStartLines

\* C38, what holds: the same for the texts whose string literals hold no
\* newline character.
C38_AtLineStartWithoutRawNewline ==
    (pc = "lexed" /\ ~RawNewlineInString) => IndentationTokensStartLines

\* C38, the case: `a="x<newline>y" +b` has been tokenised with an INDENT
\* between the string and the `+`.
C38_IndentAfterString ==
    /\ pc = "lexed"
    /\ source = StringLines[1]
    /\ TokenTypes = <<"IDENT", "ASSIGN", "STRING", "INDENT", "PLUS", "IDENT", "DEDENT", "EOF">>

\* C38, the case of a DEDENT: in a block at indentation 1 the string with a
\* newline is followed at once by a comma, and a DEDENT stands between them.
C38_DedentAfterString ==
    /\ pc = "lexed"
    /\ source = StringLines[2]
    /\ TokenTypes = <<"INDENT", "IDENT", "ASSIGN", "STRING", "DEDENT", "COMMA", "IDENT", "EOF">>

\* C38, the case without a newline in the string: two lines of a block with
\* an escaped newline have been tokenised.
C38_EscapedNewlineLexed ==
    /\ pc = "lexed"
    /\ source = StringLines[5] \o <<"\n">> \o StringLines[4]
    /\ CountOf("INDENT") = 1
    /\ CountOf("DEDENT") = 1
(***************************************************************************)
(* C39: for loops end                                                      *)
(***************************************************************************)
\* the largest depth of the frame stack, and the largest number of for
\* loops inside one another in one frame, at which a FOR_ITER is looked for
MaxLoopDepth == 2
MaxNested == 2

\* an integer is under the top of the running frame's stack
HasCursor ==
    LET stack == frames[Len(frames)].stack IN
    Len(stack) > 1 /\ stack[Len(stack) - 1].t = "int"

\* the cursor FOR_ITER reads: the integer under the list, or 0
Cursor ==
    LET stack == frames[Len(frames)].stack IN
    IF HasCursor THEN stack[Len(stack) - 1].v ELSE 0

\* a FOR_ITER on a list is next in the running frame
IsNextForIter ==
    /\ IsNext("FOR_ITER")
    /\ frames[Len(frames)].stack # <<>>
    /\ TopOfStack.t = "list"

\* frame f is the running frame and is about to execute the FOR_ITER of a
\* loop that has d loops of the frame around it: each of those holds its
\* cursor and its list on the stack, and this one its list, with its
\* cursor from the second pass on
AtForIter(f, d) ==
    /\ IsNextForIter
    /\ Len(frames) = f
    /\ Len(frames[f].stack) = 2 * d + (IF HasCursor THEN 2 ELSE 1)

\* frame f is the running frame, at the first instruction after a for loop
\* that had d loops around it: a FOR_ITER jumps there when it is exhausted,
\* and the stack holds no more than the cursors and lists of the d loops
LoopLeft(f, d) ==
    /\ pc = "loop"
    /\ Len(frames) = f
    /\ Len(frames[f].stack) = 2 * d
    /\ \E j \in DOMAIN frames[f].code.instructions :
          /\ frames[f].code.instructions[j].op = "FOR_ITER"
          /\ frames[f].code.instructions[j].arg = frames[f].ip

C39_InnerLoopInSecondFrame ==
    /\ AtForIter(2, 0)
    /\ Cursor = 1
    /\ frames[1].stack # <<>>

\* C39, the case of a loop inside a loop of the same frame, left.
C39_NestedLoopLeft ==
    /\ LoopLeft(1, 1)
    /\ frames[1].stack[1] = PyInt(2)
(***************************************************************************)
(* C40: the constant pool                                                  *)
(***************************************************************************)
\* no two entries of the pool of c have the same key
DistinctKeys(c) ==
    \A i, j \in DOMAIN c.consts : ConstKey(c.consts[i]) = ConstKey(c.consts[j]) => i = j

\* adding an entry of the pool of c again gives its index and leaves the
\* pool as it is; adding a value of a key the pool does not hold appends it
AddsOncePerKey(c) ==
    /\ \A i \in DOMAIN c.consts :
          /\ ConstIndex(c, c.consts[i]) = i - 1
          /\ addConstant(c, c.consts[i]) = c
    /\ \A obj \in {PyInt(n) : n \in 0..100} \cup {PyBool(TRUE), PyBool(FALSE), PyNone} :
          (\A i \in DOMAIN c.consts : ConstKey(c.consts[i]) # ConstKey(obj)) =>
              /\ ConstIndex(c, obj) = Len(c.consts)
              /\ addConstant(c, obj).consts = Append(c.consts, obj)

\* C40: in the code object Compile returns and in the code object of every
\* function in it, no two constants have the same (type, rendered string)
\* pair; a constant that is added again gets the index it has and the pool
\* grows only by a constant of a new pair.
C40_ConstantsAreDeduplicated ==
    pc = "run" => \A c \in CodeObjectsOf(code) : DistinctKeys(c) /\ AddsOncePerKey(c)

\* C40, the case: a literal occurs twice in the module and both LOAD_CONST
\* have the same index, in a pool of three or more constants.
C40_LiteralCompiledTwice ==
    /\ pc = "run"
    /\ Len(code.consts) >= 3
    /\ \E i, j \in DOMAIN code.instructions :
          /\ i < j
          /\ code.instructions[i].op = "LOAD_CONST"
          /\ code.instructions[j].op = "LOAD_CONST"
          /\ code.instructions[i].arg = code.instructions[j].arg
          /\ code.consts[code.instructions[i].arg + 1].t = "int"
====
